---- MODULE Spec2Model ----
(***************************************************************************)
(* Model of the Audit middleware of sqlkit (src/rewrite.go, the part that  *)
(* starts at "type Audit struct"): the verdict cache `sqls`, the whitelist,*)
(* the pre-phase `before`, the Exec/Query wrappers, the asynchronous       *)
(* EXPLAIN task `auditAsync` and the public cache mutators.                *)
(*                                                                         *)
(* Every sync.Map operation is one atomic step.  A call through the        *)
(* middleware is a process with a program counter; the EXPLAIN task is a   *)
(* detached goroutine whose only access to shared state is its final       *)
(* Store (success) or Delete (error, panic).                               *)
(***************************************************************************)
EXTENDS Integers, Sequences, FiniteSets, TLC

(***************************************************************************)
(* Bounds of the model.                                                    *)
(***************************************************************************)
NCallers == 2       \* concurrent goroutines calling Exec/Query
MaxTasks == 2       \* EXPLAIN goroutines in flight per query text
MaxTicks == 2       \* clock advances explored
CacheSeconds == 15  \* the configured sql_cache_duration, in seconds
MaxPlanRows == 1    \* rows of an EXPLAIN result
MaxRowCount == 3    \* largest rows estimate of a plan row classified on its own
MaxThreshold == 3   \* largest alarm and banned threshold configured
MaxPlanLen == 2     \* rows of a plan classified on its own
MaxLayers == 2      \* middlewares wrapped around the vendor driver
MaxArgs == 3        \* arguments given to Rewrite.Args
MaxCalls == 2       \* statements the application sends while EXPLAINs are followed
MaxRows == 2        \* rows of a Rows value stored in the Mock
MaxReplays == 3     \* replays of a mapped query followed

(***************************************************************************)
(* Program constants.                                                      *)
(***************************************************************************)
Normal == 0
Alarm == 1
Banned == 2
JitterN == 30
DefaultSeenSqlLogLevel == Alarm
AlarmThreshold == 0     \* "alarm_threshold": 0 of the test configuration
BannedThreshold == 2    \* "banned_threshold": 2 of the test configuration
temporaryReason == <<"__temporary">>

\* A Go pointer or slice that may be nil is a sequence of length 0 (nil) or 1.
Nil == <<>>
Ptr(v) == <<v>>
Deref(p) == p[1]

AlarmTypes == {Normal, Alarm, Banned}

(***************************************************************************)
(* Query texts.  A query is a string; the model names each text and gives  *)
(* its characters, which is what DefaultShouldAudit looks at.              *)
(***************************************************************************)
TablesQuery == "tables"
Queries == {"dml", "ddl"}      \* the statements the application executes
AdminQueries == {"dml"}        \* the statements the operators name

Text(q) ==
    CASE q = "dml" -> <<" ", "S", "e", "l", "e", "c", "t", " ", "a", "\n">>
      [] q = "ddl" -> <<"c", "r", "e", "a", "t", "e", " ", "t">>
      [] q = TablesQuery -> <<"S", "E", "L", "E", "C", "T", " ", "t">>
      [] q = "tables-lower" -> <<"s", "e", "l", "e", "c", "t", " ", "t">>
      [] q = "dml-trimmed" -> <<"S", "e", "l", "e", "c", "t", " ", "a">>
      [] q = "padded" -> <<"\t", " ", "d", "e", "l", "e", "t", "e", " ">>
      [] q = "short" -> <<" ", "s", "e", "l", "e", "c", " ">>
      [] q = "bare" -> <<"U", "P", "D", "A", "T", "E">>
      [] OTHER -> <<>>

\* the argument vector the application passes with each statement
CallArgs(q) == IF q = "dml" THEN <<"x">> ELSE <<>>

(***************************************************************************)
(* strings.TrimSpace, strings.EqualFold on sequences of characters.        *)
(***************************************************************************)
IsSpace(ch) == ch \in {" ", "\t", "\n"}

RECURSIVE TrimLeft(_)
TrimLeft(s) == IF s # <<>> /\ IsSpace(Head(s)) THEN TrimLeft(Tail(s)) ELSE s

RECURSIVE TrimRight(_)
TrimRight(s) ==
    IF s # <<>> /\ IsSpace(s[Len(s)]) THEN TrimRight(SubSeq(s, 1, Len(s) - 1)) ELSE s

TrimSpace(s) == TrimRight(TrimLeft(s))

ToLower(ch) ==
    CASE ch = "S" -> "s" [] ch = "E" -> "e" [] ch = "L" -> "l" [] ch = "C" -> "c"
      [] ch = "T" -> "t" [] ch = "U" -> "u" [] ch = "P" -> "p" [] ch = "D" -> "d"
      [] ch = "A" -> "a" [] ch = "I" -> "i" [] ch = "N" -> "n" [] ch = "R" -> "r"
      [] OTHER -> ch

\* faulty variant: letters are compared as written
EqualExact(s, t) == s = t

EqualFold(s, t) ==
    /\ Len(s) = Len(t)
    /\ \A i \in 1..Len(s) : ToLower(s[i]) = ToLower(t[i])

DefaultShouldAuditNoTrim(query) ==
    IF Len(query) < 6 THEN FALSE
    ELSE LET p == SubSeq(query, 1, 6)
         IN \/ EqualFold(p, <<"s", "e", "l", "e", "c", "t">>)
            \/ EqualFold(p, <<"i", "n", "s", "e", "r", "t">>)
            \/ EqualFold(p, <<"u", "p", "d", "a", "t", "e">>)
            \/ EqualFold(p, <<"d", "e", "l", "e", "t", "e">>)

\* faulty variant: a statement is audited when select occurs anywhere in it
DefaultShouldAuditAnywhere(query) ==
    \E i \in 0..(Len(query) - 6) :
        EqualFold(SubSeq(query, i + 1, i + 6), <<"s", "e", "l", "e", "c", "t">>)

DefaultShouldAudit(query) == DefaultShouldAuditNoTrim(TrimSpace(query))

(***************************************************************************)
(* Errors.  ErrBanned is errors.WithError(New("sql is banned"),            *)
(* InvalidArgument); before returns it wrapped with the query text.        *)
(***************************************************************************)
NilErr == [text |-> "", kind |-> "", message |-> ""]
ErrBanned == [text |-> "sql is banned", kind |-> "InvalidArgument", message |-> ""]
ErrAlarm == [text |-> "sql is alarmed", kind |-> "Unknown", message |-> ""]
ErrDriver == [text |-> "driver error", kind |-> "Unknown", message |-> ""]

WithMessage(err, msg) == [err EXCEPT !.message = msg]

\* errors.Is(err, target): err is target or wraps it
ErrorsIs(err, target) == err # NilErr /\ err.text = target.text /\ err.kind = target.kind

(***************************************************************************)
(* EXPLAIN rows (mysql.ExplainRow): the four columns the classifier reads. *)
(* A text column is a pointer to a sequence of words, Nil when NULL.       *)
(***************************************************************************)
Row(table, type, rows, extra) ==
    [Table |-> table, Type |-> type, Rows |-> rows, Extra |-> extra]

ExplainRowPool ==
    { Row(Ptr("data"), Ptr("ALL"), Ptr(3), Nil),
      Row(Ptr("data"), Ptr("ALL"), Ptr(1), Nil),
      Row(Ptr("data"), Ptr("ALL"), Nil, Nil),
      Row(Ptr("data"), Ptr("ref"), Ptr(1), Nil),
      Row(Ptr("data"), Ptr("ref"), Ptr(3), Ptr(<<"Using", "filesort">>)) }

RECURSIVE SeqsUpTo(_, _)
SeqsUpTo(S, n) ==
    IF n = 0 THEN {<<>>}
    ELSE LET shorter == SeqsUpTo(S, n - 1)
         IN shorter \cup {Append(s, x) : s \in {t \in shorter : Len(t) = n - 1}, x \in S}

\* what the database may answer to EXPLAIN <query>
ExplainOutputs == SeqsUpTo(ExplainRowPool, MaxPlanRows)

\* explainExtraAlarmSubstrs after Provision, as word sequences
ExplainExtraAlarmSubstrs ==
    { <<"Block", "Nested", "Loop">>, <<"temporary">>, <<"filesort">> }

\* the orders in which a Go map range may visit the trigger set
RECURSIVE Orders(_)
Orders(S) ==
    IF S = {} THEN {<<>>}
    ELSE UNION {{<<x>> \o o : o \in Orders(S \ {x})} : x \in S}

\* strings.Contains
Contains(s, sub) ==
    \E i \in 0..(Len(s) - Len(sub)) : SubSeq(s, i + 1, i + Len(sub)) = sub

\* audit.AlarmThreshold and audit.BannedThreshold, fixed once provisioned
VARIABLE audit

\* faulty variant: the banned verdict is decided on the alarm threshold
ThresholdTypeBannedAtAlarm(rows) ==
    IF rows > audit.AlarmThreshold THEN Banned ELSE Normal

ThresholdType(rows) ==
    IF rows > audit.BannedThreshold THEN Banned
    ELSE IF rows > audit.AlarmThreshold THEN Alarm
    ELSE Normal

\* the loop over the trigger set of detectAlarmType: the last matching
\* trigger in visiting order sets the reason
RECURSIVE ExtraLoop(_, _, _, _)
ExtraLoop(er, rows, order, acc) ==
    IF order = <<>> THEN acc
    ELSE LET ss == Head(order)
             nxt == IF Contains(Deref(er.Extra), ss)
                    THEN [alarmType |-> IF ThresholdType(rows) # Normal
                                        THEN ThresholdType(rows)
                                        ELSE acc.alarmType,
                          reason |-> <<"explain:extra:">> \o ss]
                    ELSE acc
         IN ExtraLoop(er, rows, Tail(order), nxt)

\* faulty variant: only a full table scan counts as a type match
detectAlarmTypeAllOnly(er, order) ==
    IF er.Table = Nil \/ er.Type = Nil
    THEN [alarmType |-> Normal, reason |-> <<>>]
    ELSE LET rows == IF er.Rows # Nil THEN Deref(er.Rows) ELSE 0
             byType == IF Deref(er.Type) = "ALL"
                       THEN [alarmType |-> ThresholdType(rows),
                             reason |-> <<"explain:type:", Deref(er.Type)>>]
                       ELSE [alarmType |-> Normal, reason |-> <<>>]
         IN IF byType.alarmType = Normal /\ er.Extra # Nil
            THEN ExtraLoop(er, rows, order, byType)
            ELSE byType

detectAlarmType(er, order) ==
    IF er.Table = Nil \/ er.Type = Nil
    THEN [alarmType |-> Normal, reason |-> <<>>]
    ELSE LET rows == IF er.Rows # Nil THEN Deref(er.Rows) ELSE 0
             byType == IF Deref(er.Type) = "ALL" \/ Deref(er.Type) = "index"
                       THEN [alarmType |-> ThresholdType(rows),
                             reason |-> <<"explain:type:", Deref(er.Type)>>]
                       ELSE [alarmType |-> Normal, reason |-> <<>>]
         IN IF byType.alarmType = Normal /\ er.Extra # Nil
            THEN ExtraLoop(er, rows, order, byType)
            ELSE byType

\* faulty variant: the first row that is not normal decides
RECURSIVE DetectLoopFirstWins(_, _, _)
DetectLoopFirstWins(ers, order, acc) ==
    IF ers = <<>> THEN acc
    ELSE LET d == detectAlarmType(Head(ers), order)
         IN DetectLoopFirstWins(Tail(ers), order,
                                IF acc.alarmType = Normal /\ d.alarmType > Normal
                                THEN d ELSE acc)

\* faulty variant: a row replaces the result when its verdict is not lower
RECURSIVE DetectLoopLastWins(_, _, _)
DetectLoopLastWins(ers, order, acc) ==
    IF ers = <<>> THEN acc
    ELSE LET d == detectAlarmType(Head(ers), order)
         IN DetectLoopLastWins(Tail(ers), order,
                               IF d.alarmType >= acc.alarmType THEN d ELSE acc)

RECURSIVE DetectLoop(_, _, _)
DetectLoop(ers, order, acc) ==
    IF ers = <<>> THEN acc
    ELSE LET d == detectAlarmType(Head(ers), order)
         IN DetectLoop(Tail(ers), order, IF d.alarmType > acc.alarmType THEN d ELSE acc)

DetectAlarmType(ers, order) ==
    DetectLoop(ers, order, [alarmType |-> Normal, reason |-> <<>>])

(***************************************************************************)
(* State.                                                                  *)
(***************************************************************************)
VARIABLES
    sqls,               \* audit.sqls: the map query -> Sql of the stored keys
    whitelist,          \* audit.whitelist: set of query texts
    SeenSqlLogLevel,    \* audit.SeenSqlLogLevel (atomic)
    SqlCacheDuration,   \* audit.SqlCacheDuration: Nil or a pointer to seconds
    db,                 \* audit.db: Nil until SetDB attaches the pool
    now,                \* the clock, in seconds
    calls,              \* per caller goroutine: its Exec/Query in progress
    tasks,              \* per query: EXPLAIN goroutines in flight
    batch,              \* history: per query, the current group of concurrent
                        \* first-sight callers and what they did
    fn,                 \* the last call of a function applied on its own and its result
    drv,                \* the wrapped driver: inner capabilities, connection, statement
    mock                \* the Mock middleware: its two maps and the calls through it

vars ==
    <<sqls, whitelist, SeenSqlLogLevel, SqlCacheDuration, db, now, calls, tasks, batch,
      audit, fn, drv, mock>>

\* what the operations of the Audit middleware leave alone
others == <<audit, fn, drv, mock>>

\* nothing called yet, no driver wrapped, no Mock built
NoCall == [op |-> "none"]
NoDriver == [layers |-> <<>>]
NoMock == [built |-> FALSE]

Callers == 1..NCallers
LogLevels == {Normal, Alarm}

\* pc: idle -> load -> (delete ->) store -> next -> ret, or load -> ret (banned)
\* sight: what Load found when the call goes on to LoadOrStore
IdleCall ==
    [pc |-> "idle", query |-> "", sight |-> "", ctxStart |-> FALSE, err |-> NilErr,
     inner |-> 0, rt |-> FALSE]

\* a group of first-sight callers: whether one is being followed, how many
\* joined it, the placeholders its members inserted, the tasks they spawned,
\* and who else wrote the query's entry meanwhile: nobody (""), only EXPLAIN
\* goroutines ("task"), or a public operation or an expiring call ("other")
NoBatch == [open |-> FALSE, size |-> 0, ins |-> 0, spawn |-> 0, dirty |-> ""]
NewBatch == [open |-> TRUE, size |-> 1, ins |-> 0, spawn |-> 0, dirty |-> ""]

\* the callers of q that found no record and have not yet called LoadOrStore
Waiting(q) ==
    {c \in Callers : calls[c].pc = "store" /\ calls[c].query = q /\ calls[c].sight = "absent"}

Min(a, b) == IF a < b THEN a ELSE b

\* type Sql; `by` records which operation stored the record (not program state)
Sql(query, args, explain, alarmType, reason, createdAt, by) ==
    [Query |-> query, Args |-> args, Explain |-> explain, AlarmType |-> alarmType,
     Reason |-> reason, CreatedAt |-> createdAt, by |-> by]

(***************************************************************************)
(* sync.Map operations on a function whose domain is the stored keys.      *)
(***************************************************************************)
Has(m, k) == k \in DOMAIN m

Store(m, k, v) == [x \in DOMAIN m \cup {k} |-> IF x = k THEN v ELSE m[x]]

Delete(m, k) == [x \in DOMAIN m \ {k} |-> m[x]]

\* LoadOrStore: the map afterwards; loaded is Has(m, k) before
LoadOrStore(m, k, v) == IF Has(m, k) THEN m ELSE Store(m, k, v)

(***************************************************************************)
(* Audit.ShouldAudit with the default predicate installed by Provision.    *)
(***************************************************************************)
ShouldAuditFunc(query) == DefaultShouldAudit(Text(query))

\* faulty variant: the whitelist is not consulted
ShouldAuditNoWhitelist(query) == ShouldAuditFunc(query)

ShouldAudit(query) ==
    IF query \in whitelist THEN FALSE ELSE ShouldAuditFunc(query)

\* the Audit value after Provision, but for its whitelist and thresholds
Provisioned ==
    /\ sqls = << >>
    /\ SeenSqlLogLevel = DefaultSeenSqlLogLevel
    /\ SqlCacheDuration = Ptr(CacheSeconds)
    /\ db = "nil"
    /\ now = 0
    /\ calls = [c \in Callers |-> IdleCall]
    /\ tasks = [q \in Queries |-> 0]
    /\ batch = [q \in Queries |-> NoBatch]

Init ==
    /\ Provisioned
    /\ whitelist = {TablesQuery}
    /\ audit = [AlarmThreshold |-> AlarmThreshold, BannedThreshold |-> BannedThreshold]
    /\ fn = NoCall
    /\ drv = NoDriver
    /\ mock = NoMock

\* the entry of q differs between this state and the next
Touched(q) ==
    IF Has(sqls, q) THEN ~Has(sqls', q) \/ sqls'[q] # sqls[q] ELSE Has(sqls', q)

\* the groups still followed: a group whose members have all made their
\* put-if-absent is dropped at the next step
Following ==
    [q \in Queries |-> IF batch[q].open /\ Waiting(q) = {} THEN NoBatch ELSE batch[q]]

\* history update of a step that is not a put-if-absent of a group member
Foreign(kind) ==
    batch' = [q \in Queries |->
                 IF Following[q].open /\ Touched(q)
                 THEN [Following[q] EXCEPT !.dirty = IF @ = "other" THEN @ ELSE kind]
                 ELSE Following[q]]

(***************************************************************************)
(* Exec/Query through the middleware: Audit.ExecContext, QueryContext.     *)
(***************************************************************************)
Shared == <<sqls, whitelist, SeenSqlLogLevel, SqlCacheDuration, db, now, tasks>>
Config == <<whitelist, SeenSqlLogLevel, SqlCacheDuration, db, now>>

\* the wrapper is entered and before() evaluates ShouldAudit(query)
Enter(c, q) ==
    /\ calls[c].pc \in {"idle", "ret"}
    /\ calls' = [calls EXCEPT ![c] =
            [IdleCall EXCEPT !.query = q,
                             !.pc = IF ShouldAudit(q) THEN "load" ELSE "next"]]
    /\ batch' = Following
    /\ UNCHANGED Shared
    /\ UNCHANGED others

\* faulty variant: a record expires as soon as its age reaches the duration
IsStaleAtDuration(s, j) ==
    SqlCacheDuration # Nil /\ now - s.CreatedAt >= Deref(SqlCacheDuration) + j

\* faulty variant: a duration left out is taken for a duration of zero
IsStaleWithoutDuration(s, j) ==
    now - s.CreatedAt > (IF SqlCacheDuration = Nil THEN 0 ELSE Deref(SqlCacheDuration)) + j

\* the stale test of before(): age > SqlCacheDuration + jitter(30)
IsStale(s, j) ==
    SqlCacheDuration # Nil /\ now - s.CreatedAt > Deref(SqlCacheDuration) + j

\* faulty variant: a banned record aborts only at the default log level
OnFreshBannedAtDefaultLevel(call, s) ==
    IF s.AlarmType = Banned /\ SeenSqlLogLevel = DefaultSeenSqlLogLevel
    THEN [call EXCEPT !.pc = "ret", !.err = WithMessage(ErrBanned, call.query)]
    ELSE [call EXCEPT !.pc = "next", !.ctxStart = TRUE]

\* faulty variant: an alarm record aborts the call with ErrAlarm
OnFreshAlarmAborts(call, s) ==
    IF s.AlarmType = Banned
    THEN [call EXCEPT !.pc = "ret", !.err = WithMessage(ErrBanned, call.query)]
    ELSE IF s.AlarmType = Alarm
    THEN [call EXCEPT !.pc = "ret", !.err = WithMessage(ErrAlarm, call.query)]
    ELSE [call EXCEPT !.pc = "next", !.ctxStart = (SeenSqlLogLevel <= Normal)]

\* the switch on s.AlarmType of a fresh record
OnFresh(call, s) ==
    IF s.AlarmType = Banned
    THEN [call EXCEPT !.pc = "ret", !.err = WithMessage(ErrBanned, call.query)]
    ELSE IF s.AlarmType = Alarm
    THEN [call EXCEPT !.pc = "next", !.ctxStart = TRUE]
    ELSE [call EXCEPT !.pc = "next", !.ctxStart = (SeenSqlLogLevel <= Normal)]

\* the branch taken on a loaded record, for the jitter drawn
OnLoaded(call, s, j) ==
    IF IsStale(s, j)
    THEN [call EXCEPT !.pc = "delete", !.sight = "stale"]
    ELSE OnFresh(call, s)

\* v, ok := audit.sqls.Load(query) and the decision that follows
Load(c) ==
    /\ calls[c].pc = "load"
    /\ LET q == calls[c].query
       IN IF Has(sqls, q)
          THEN /\ \E call \in {OnLoaded(calls[c], sqls[q], j) : j \in 0..(JitterN - 1)} :
                     calls' = [calls EXCEPT ![c] = call]
               /\ batch' = Following
          ELSE /\ calls' = [calls EXCEPT ![c].pc = "store", ![c].sight = "absent"]
               /\ batch' = [Following EXCEPT ![q] =
                       IF Waiting(q) = {}
                       THEN NewBatch
                       ELSE [@ EXCEPT !.size = Min(NCallers, @ + 1)]]
    /\ UNCHANGED Shared
    /\ UNCHANGED others

\* audit.sqls.Delete(query) of the stale branch
DeleteStale(c) ==
    /\ calls[c].pc = "delete"
    /\ sqls' = Delete(sqls, calls[c].query)
    /\ calls' = [calls EXCEPT ![c].pc = "store"]
    /\ Foreign("other")
    /\ UNCHANGED <<Config, tasks>>
    /\ UNCHANGED others

\* the placeholder of a first sight
Temporary(q) == Sql(q, Ptr(CallArgs(q)), Nil, Normal, temporaryReason, now, "before")

\* faulty variant: auditAsync spawns whether or not the placeholder was inserted
FirstSightAlwaysSpawns(c) ==
    /\ calls[c].pc = "store"
    /\ LET q == calls[c].query
       IN /\ tasks[q] < MaxTasks
          /\ sqls' = LoadOrStore(sqls, q, Temporary(q))
          /\ tasks' = [tasks EXCEPT ![q] = @ + 1]
          /\ IF calls[c].sight = "absent"
             THEN batch' = [Following EXCEPT ![q] =
                     [@ EXCEPT !.ins = Min(2, @ + (IF Touched(q) THEN 1 ELSE 0)),
                               !.spawn = Min(2, @ + tasks'[q] - tasks[q])]]
             ELSE Foreign("other")
    /\ calls' = [calls EXCEPT ![c].pc = "next", ![c].sight = ""]
    /\ UNCHANGED Config
    /\ UNCHANGED others

\* audit.sqls.LoadOrStore(query, placeholder); if !loaded, auditAsync spawns
FirstSight(c) ==
    /\ calls[c].pc = "store"
    /\ LET q == calls[c].query
           loaded == Has(sqls, q)
       IN /\ ~loaded => tasks[q] < MaxTasks
          /\ sqls' = LoadOrStore(sqls, q, Temporary(q))
          /\ tasks' = IF loaded THEN tasks ELSE [tasks EXCEPT ![q] = @ + 1]
          /\ IF calls[c].sight = "absent"
             THEN batch' = [Following EXCEPT ![q] =
                     [@ EXCEPT !.ins = Min(2, @ + (IF Touched(q) THEN 1 ELSE 0)),
                               !.spawn = Min(2, @ + tasks'[q] - tasks[q])]]
             ELSE Foreign("other")
    /\ calls' = [calls EXCEPT ![c].pc = "next", ![c].sight = ""]
    /\ UNCHANGED Config
    /\ UNCHANGED others

\* next(ctx, query, args), then after(ctx) when next returned no error
Next_(c) ==
    /\ calls[c].pc = "next"
    /\ \E ok \in BOOLEAN :
          calls' = [calls EXCEPT ![c] =
              [@ EXCEPT !.pc = "ret",
                        !.inner = @ + 1,
                        !.err = IF ok THEN NilErr ELSE ErrDriver,
                        !.rt = ok /\ calls[c].ctxStart]]
    /\ batch' = Following
    /\ UNCHANGED Shared
    /\ UNCHANGED others

(***************************************************************************)
(* The goroutine of auditAsync.                                            *)
(***************************************************************************)

\* faulty variant: recover() leaves the entry in place
ExplainPanicKeeps(q) ==
    /\ tasks[q] > 0
    /\ db = "nil"
    /\ tasks' = [tasks EXCEPT ![q] = @ - 1]
    /\ batch' = Following
    /\ UNCHANGED <<sqls, Config, calls>>
    /\ UNCHANGED others

\* audit.Explain dereferences a nil *sql.DB: recover() deletes the entry
ExplainPanic(q) ==
    /\ tasks[q] > 0
    /\ db = "nil"
    /\ sqls' = Delete(sqls, q)
    /\ tasks' = [tasks EXCEPT ![q] = @ - 1]
    /\ Foreign("task")
    /\ UNCHANGED <<Config, calls>>
    /\ UNCHANGED others

\* faulty variant: the error branch leaves the entry in place
ExplainFailKeeps(q) ==
    /\ tasks[q] > 0
    /\ db # "nil"
    /\ tasks' = [tasks EXCEPT ![q] = @ - 1]
    /\ batch' = Following
    /\ UNCHANGED <<sqls, Config, calls>>
    /\ UNCHANGED others

\* audit.Explain returns an error (also the 3 s deadline)
ExplainFail(q) ==
    /\ tasks[q] > 0
    /\ db # "nil"
    /\ sqls' = Delete(sqls, q)
    /\ tasks' = [tasks EXCEPT ![q] = @ - 1]
    /\ Foreign("task")
    /\ UNCHANGED <<Config, calls>>
    /\ UNCHANGED others

\* the record auditAsync stores for a plan
Classified(q, ers, order) ==
    LET d == DetectAlarmType(ers, order)
    IN Sql(q, Ptr(CallArgs(q)), ers, d.alarmType, d.reason, now, "explain")

\* audit.Explain returns the plan; DetectAlarmType; audit.sqls.Store
ExplainDone(q) ==
    /\ tasks[q] > 0
    /\ db # "nil"
    /\ \E s \in {Classified(q, ers, order) :
                      ers \in ExplainOutputs, order \in Orders(ExplainExtraAlarmSubstrs)} :
          sqls' = Store(sqls, q, s)
    /\ tasks' = [tasks EXCEPT ![q] = @ - 1]
    /\ Foreign("task")
    /\ UNCHANGED <<Config, calls>>
    /\ UNCHANGED others

(***************************************************************************)
(* Public operations of Audit.                                             *)
(***************************************************************************)
\* the (alarm_type, reason) pairs the operators send
BlacklistInputs ==
    { <<Alarm, <<"test">>>>, <<Banned, <<"test">>>>, <<Banned, temporaryReason>> }

\* faulty variant: the record is always banned
BlacklistedAlwaysBanned(query, alarmType, reason) ==
    Sql(query, Nil, Nil, Banned, reason, now, "AddBlacklistQuery")

Blacklisted(query, alarmType, reason) ==
    Sql(query, Nil, Nil, alarmType, reason, now, "AddBlacklistQuery")

AddBlacklistQuery(query, alarmType, reason) ==
    /\ sqls' = Store(sqls, query, Blacklisted(query, alarmType, reason))
    /\ Foreign("other")
    /\ UNCHANGED <<Config, calls, tasks>>
    /\ UNCHANGED others

\* the records the operators hand to SetSql: none, one without a query, a full one
SetSqlInputs ==
    { Nil,
      Ptr(Sql("", Nil, Nil, Normal, <<>>, 0, "SetSql")),
      Ptr(Sql("dml", Nil, Nil, Alarm, <<"manual">>, 0, "SetSql")) }

SetSql(s) ==
    /\ sqls' = IF s = Nil \/ Deref(s).Query = ""
               THEN sqls
               ELSE Store(sqls, Deref(s).Query, Deref(s))
    /\ Foreign("other")
    /\ UNCHANGED <<Config, calls, tasks>>
    /\ UNCHANGED others

DeleteSql(query) ==
    /\ sqls' = Delete(sqls, query)
    /\ Foreign("other")
    /\ UNCHANGED <<Config, calls, tasks>>
    /\ UNCHANGED others

ClearSqls ==
    /\ sqls' = << >>
    /\ Foreign("other")
    /\ UNCHANGED <<Config, calls, tasks>>
    /\ UNCHANGED others

AddWhitelistQuery(query) ==
    /\ whitelist' = whitelist \cup {query}
    /\ batch' = Following
    /\ UNCHANGED <<sqls, SeenSqlLogLevel, SqlCacheDuration, db, now, calls, tasks>>
    /\ UNCHANGED others

DelWhitelistQuery(query) ==
    /\ whitelist' = whitelist \ {query}
    /\ batch' = Following
    /\ UNCHANGED <<sqls, SeenSqlLogLevel, SqlCacheDuration, db, now, calls, tasks>>
    /\ UNCHANGED others

SetSeenSqlLogLevel(level) ==
    /\ SeenSqlLogLevel' = level
    /\ batch' = Following
    /\ UNCHANGED <<sqls, whitelist, SqlCacheDuration, db, now, calls, tasks>>
    /\ UNCHANGED others

SetDB ==
    /\ db' = "db"
    /\ batch' = Following
    /\ UNCHANGED <<sqls, whitelist, SeenSqlLogLevel, SqlCacheDuration, now, calls, tasks>>
    /\ UNCHANGED others

\* the clock readings explored: one cache duration passes, then more than
\* the jitter bound, and so on, so that ages up to the duration, within the
\* jitter and beyond it occur
RECURSIVE ClockAt(_)
ClockAt(n) ==
    IF n = 0 THEN 0
    ELSE ClockAt(n - 1) + (IF n % 2 = 1 THEN CacheSeconds ELSE JitterN + 1)

\* time passes; an EXPLAIN goroutine ends within its 3 s deadline, which is
\* shorter than any advance of the clock explored
Tick ==
    /\ \A q \in Queries : tasks[q] = 0
    /\ \E n \in 0..(MaxTicks - 1) : now = ClockAt(n) /\ now' = ClockAt(n + 1)
    /\ batch' = Following
    /\ UNCHANGED <<sqls, whitelist, SeenSqlLogLevel, SqlCacheDuration, db, calls, tasks>>
    /\ UNCHANGED others

Next ==
    \/ \E c \in Callers, q \in Queries : Enter(c, q)
    \/ \E c \in Callers : Load(c)
    \/ \E c \in Callers : DeleteStale(c)
    \/ \E c \in Callers : FirstSight(c)
    \/ \E c \in Callers : Next_(c)
    \/ \E q \in Queries : ExplainPanic(q)
    \/ \E q \in Queries : ExplainFail(q)
    \/ \E q \in Queries : ExplainDone(q)
    \/ \E q \in AdminQueries, in \in BlacklistInputs :
          AddBlacklistQuery(q, in[1], in[2])
    \/ \E s \in SetSqlInputs : SetSql(s)
    \/ \E q \in AdminQueries : DeleteSql(q)
    \/ ClearSqls
    \/ \E q \in AdminQueries : AddWhitelistQuery(q)
    \/ \E q \in AdminQueries : DelWhitelistQuery(q)
    \/ \E l \in LogLevels : SetSeenSqlLogLevel(l)
    \/ SetDB
    \/ Tick

Spec == Init /\ [][Next]_vars

\* the traffic alone: Exec/Query calls, their EXPLAIN goroutines, the clock,
\* and the SetDB of start-up; no operator touches the cache
NextTraffic ==
    \/ \E c \in Callers, q \in Queries : Enter(c, q)
    \/ \E c \in Callers : Load(c)
    \/ \E c \in Callers : DeleteStale(c)
    \/ \E c \in Callers : FirstSight(c)
    \/ \E c \in Callers : Next_(c)
    \/ \E q \in Queries : ExplainPanic(q)
    \/ \E q \in Queries : ExplainFail(q)
    \/ \E q \in Queries : ExplainDone(q)
    \/ SetDB
    \/ Tick

SpecTraffic == Init /\ [][NextTraffic]_vars

\* the Audit with and without "sql_cache_duration" in its configuration
InitAnyDuration ==
    /\ sqls = << >>
    /\ SeenSqlLogLevel = DefaultSeenSqlLogLevel
    /\ SqlCacheDuration \in {Nil, Ptr(CacheSeconds)}
    /\ db = "nil"
    /\ now = 0
    /\ calls = [c \in Callers |-> IdleCall]
    /\ tasks = [q \in Queries |-> 0]
    /\ batch = [q \in Queries |-> NoBatch]
    /\ whitelist = {TablesQuery}
    /\ audit = [AlarmThreshold |-> AlarmThreshold, BannedThreshold |-> BannedThreshold]
    /\ fn = NoCall
    /\ drv = NoDriver
    /\ mock = NoMock

SpecAnyDuration == InitAnyDuration /\ [][Next]_vars

\* every EXPLAIN goroutine is scheduled, and its EXPLAIN returns or hits the
\* 3 s deadline, so a goroutine in flight ends
ExplainEnds(q) == ExplainPanic(q) \/ ExplainFail(q) \/ ExplainDone(q)

\* the traffic and the operators that write the cache
NextCache ==
    \/ NextTraffic
    \/ \E q \in AdminQueries, in \in BlacklistInputs :
          AddBlacklistQuery(q, in[1], in[2])
    \/ \E s \in SetSqlInputs : SetSql(s)
    \/ \E q \in AdminQueries : DeleteSql(q)
    \/ ClearSqls

SpecLive == Init /\ [][NextCache]_vars /\ \A q \in Queries : WF_vars(ExplainEnds(q))

(***************************************************************************)
(* The classifier applied on its own: Audit.detectAlarmType on a plan row, *)
(* Audit.DetectAlarmType on a plan, for every pair of thresholds.          *)
(***************************************************************************)
\* the extra column: NULL, no trigger, one trigger, two triggers, the third trigger
ExtraPool ==
    { Nil,
      Ptr(<<"Using", "where">>),
      Ptr(<<"Using", "filesort">>),
      Ptr(<<"Using", "temporary", ";", "Using", "filesort">>),
      Ptr(<<"Using", "join", "buffer", "(", "Block", "Nested", "Loop", ")">>) }

\* the plan rows classified one by one
ClassifyRowPool ==
    { Row(t, ty, r, x) :
        t \in {Nil, Ptr("data")},
        ty \in {Nil, Ptr("ALL"), Ptr("index"), Ptr("ref")},
        r \in {Nil} \cup {Ptr(n) : n \in 0..MaxRowCount},
        x \in ExtraPool }

\* the rows the plans are made of
PlanRowPool ==
    { Row(Ptr("data"), Ptr("ALL"), Ptr(3), Nil),
      Row(Ptr("data"), Ptr("ALL"), Ptr(1), Nil),
      Row(Ptr("data"), Ptr("ALL"), Nil, Nil),
      Row(Ptr("data"), Ptr("index"), Ptr(2), Nil),
      Row(Ptr("data"), Ptr("ref"), Ptr(3), Ptr(<<"Using", "filesort">>)),
      Row(Ptr("data"), Ptr("ref"), Ptr(1),
          Ptr(<<"Using", "temporary", ";", "Using", "filesort">>)),
      Row(Ptr("data"), Ptr("ref"), Ptr(1), Nil),
      Row(Nil, Nil, Nil, Nil) }

\* AlarmThreshold is any configured number; Provision keeps BannedThreshold positive
ThresholdPairs ==
    { [AlarmThreshold |-> a, BannedThreshold |-> b] :
        a \in (0 - 1)..MaxThreshold, b \in 1..MaxThreshold }

InitClassify ==
    /\ Provisioned
    /\ whitelist = {TablesQuery}
    /\ audit \in ThresholdPairs
    /\ fn = NoCall
    /\ drv = NoDriver
    /\ mock = NoMock

\* what the functions applied on their own leave alone
AuditState ==
    <<sqls, whitelist, SeenSqlLogLevel, SqlCacheDuration, db, now, calls, tasks, batch>>

\* alarmType, reason := audit.detectAlarmType(&er)
ClassifyRow(er, order) ==
    /\ fn' = [op |-> "detectAlarmType", er |-> er, out |-> detectAlarmType(er, order)]
    /\ UNCHANGED <<AuditState, audit, drv, mock>>

\* the record auditAsync builds from audit.DetectAlarmType(ers)
ClassifyPlan(ers, order) ==
    /\ fn' = [op |-> "DetectAlarmType", ers |-> ers, out |-> Classified("dml", ers, order)]
    /\ UNCHANGED <<AuditState, audit, drv, mock>>

NextClassify ==
    \/ \E er \in ClassifyRowPool, order \in Orders(ExplainExtraAlarmSubstrs) :
          ClassifyRow(er, order)
    \/ \E ers \in SeqsUpTo(PlanRowPool, MaxPlanLen), order \in Orders(ExplainExtraAlarmSubstrs) :
          ClassifyPlan(ers, order)

SpecClassify == InitClassify /\ [][NextClassify]_vars

(***************************************************************************)
(* Properties of the pre-phase.                                            *)
(***************************************************************************)

\* C1: a call that loads a banned record and does not treat it as stale
\* returns ErrBanned (an invalid-argument error) without invoking the inner
\* operation, at every SeenSqlLogLevel.
BannedIsRefused ==
    [][\A c \in Callers :
          LET call == calls[c]
              q == call.query
          IN (/\ call.pc = "load"
              /\ calls'[c] # call
              /\ Has(sqls, q)
              /\ sqls[q].AlarmType = Banned
              /\ calls'[c].pc # "delete")
             => /\ calls'[c].pc = "ret"
                /\ calls'[c].err.text = "sql is banned"
                /\ calls'[c].err.kind = "InvalidArgument"
                /\ calls'[c].inner = 0]_vars

\* a call refused on a banned verdict of EXPLAIN, at a log level other than the default
BannedIsRefusedWitness ==
    \E c \in Callers :
        /\ calls[c].pc = "ret"
        /\ calls[c].err.text = "sql is banned"
        /\ calls[c].inner = 0
        /\ SeenSqlLogLevel # DefaultSeenSqlLogLevel
        /\ Has(sqls, calls[c].query)
        /\ sqls[calls[c].query].AlarmType = Banned
        /\ sqls[calls[c].query].by = "explain"

\* C3: a call that loads an alarm or normal record (the placeholder included)
\* and does not treat it as stale is not aborted: before() returns nil, the
\* inner operation runs exactly once, and ErrAlarm is never returned.
AlarmAndNormalPass ==
    [][\A c \in Callers :
          LET call == calls[c]
              q == call.query
          IN /\ (/\ call.pc = "load"
                 /\ calls'[c] # call
                 /\ Has(sqls, q)
                 /\ sqls[q].AlarmType \in {Alarm, Normal}
                 /\ calls'[c].pc # "delete")
                => /\ calls'[c].pc = "next"
                   /\ calls'[c].err = NilErr
                   /\ calls'[c].inner = 0
             /\ (call.pc = "next" /\ calls'[c] # call)
                => /\ calls'[c].pc = "ret"
                   /\ calls'[c].inner = 1
             /\ calls'[c].err.text # "sql is alarmed"]_vars

\* a call that found an alarm verdict of EXPLAIN and ran its inner operation
AlarmAndNormalPassWitness ==
    \E c \in Callers :
        /\ calls[c].pc = "ret"
        /\ calls[c].inner = 1
        /\ calls[c].err = NilErr
        /\ calls[c].ctxStart
        /\ SeenSqlLogLevel # Normal
        /\ Has(sqls, calls[c].query)
        /\ sqls[calls[c].query].AlarmType = Alarm
        /\ sqls[calls[c].query].by = "explain"

\* C4: a call whose query is whitelisted or rejected by the predicate goes
\* straight to the inner operation with a nil error and an unchanged context,
\* and neither it nor its inner operation touches the cache or starts a task,
\* whatever record the cache holds.
NotAuditedPassesThrough ==
    [][\A c \in Callers :
          LET call == calls[c]
              q == calls'[c].query
          IN /\ (/\ call.pc \in {"idle", "ret"}
                 /\ calls'[c] # call
                 /\ q \in whitelist \/ ~DefaultShouldAudit(Text(q)))
                => /\ calls'[c].pc = "next"
                   /\ calls'[c].err = NilErr
                   /\ ~calls'[c].ctxStart
                   /\ sqls' = sqls
                   /\ tasks' = tasks
             /\ (call.pc = "next" /\ calls'[c] # call)
                => /\ sqls' = sqls
                   /\ tasks' = tasks]_vars

\* a whitelisted query ran its inner operation while the cache held a banned record of it
NotAuditedPassesThroughWitness ==
    \E c \in Callers :
        /\ calls[c].pc = "ret"
        /\ calls[c].inner = 1
        /\ calls[c].query \in whitelist
        /\ DefaultShouldAudit(Text(calls[c].query))
        /\ Has(sqls, calls[c].query)
        /\ sqls[calls[c].query].AlarmType = Banned

FailedExplainIsForgotten ==
    [][/\ \A q \in Queries :
             (ExplainFail(q) \/ ExplainPanic(q))
             => /\ ~Has(sqls', q)
                /\ calls' = calls
                /\ tasks'[q] = tasks[q] - 1
       /\ \A c \in Callers :
             LET call == calls[c]
                 q == call.query
             IN /\ (call.pc = "load" /\ calls'[c] # call /\ ~Has(sqls, q))
                   => calls'[c].pc = "store"
                /\ (call.pc = "store" /\ calls'[c] # call /\ ~Has(sqls, q))
                   => /\ Has(sqls', q)
                      /\ sqls'[q].Reason = <<"__temporary">>
                      /\ tasks'[q] = tasks[q] + 1
                      /\ calls'[c].pc = "next"
                      /\ calls'[c].err = NilErr]_vars

\* a task spawned by one caller has failed and removed the placeholder while
\* another caller that had found no record is about to make its put-if-absent
FailedExplainIsForgottenWitness ==
    \E q \in Queries :
        /\ batch[q].open
        /\ batch[q].spawn = 1
        /\ batch[q].dirty = "task"
        /\ tasks[q] = 0
        /\ ~Has(sqls, q)
        /\ Waiting(q) # {}
        /\ \E c \in Callers :
              calls[c].query = q /\ calls[c].pc \in {"next", "ret"} /\ calls[c].err = NilErr

\* C6 (as stated): once the EXPLAIN goroutine has stored a verdict and no
\* task is in flight, no step of an Exec/Query call removes or changes the
\* record while its age is within the cache duration.
VerdictStaysUntilExpiry ==
    [][\A q \in Queries :
          (/\ Has(sqls, q)
           /\ sqls[q].by = "explain"
           /\ tasks[q] = 0
           /\ SqlCacheDuration # Nil
           /\ now - sqls[q].CreatedAt <= Deref(SqlCacheDuration)
           /\ calls' # calls)
          => Has(sqls', q) /\ sqls'[q] = sqls[q]]_vars

\* C7: a loaded record whose age is at most the cache duration is never
\* treated as stale; one treated as stale is older than duration + j and one
\* kept is not older than duration + j for some j in 0..29; one older than
\* duration + 30 s is always treated as stale. The stale branch deletes the
\* entry and goes on to the put-if-absent, which, finding nothing, inserts
\* the placeholder and spawns a task.
StaleByAge ==
    [][\A c \in Callers :
          LET call == calls[c]
              q == call.query
          IN /\ (/\ call.pc = "load"
                 /\ calls'[c] # call
                 /\ Has(sqls, q)
                 /\ SqlCacheDuration # Nil)
                => LET age == now - sqls[q].CreatedAt
                       d == Deref(SqlCacheDuration)
                       stale == calls'[c].pc = "delete"
                   IN /\ age <= d => ~stale
                      /\ stale => \E j \in 0..29 : age > d + j
                      /\ ~stale => \E j \in 0..29 : ~(age > d + j)
                      /\ age > d + 30 => stale
             /\ (call.pc = "load" /\ calls'[c] # call /\ SqlCacheDuration = Nil)
                => calls'[c].pc # "delete"
             /\ (call.pc = "delete" /\ calls'[c] # call)
                => ~Has(sqls', q) /\ calls'[c].pc = "store"
             /\ (/\ call.pc = "store"
                 /\ call.sight = "stale"
                 /\ calls'[c] # call
                 /\ ~Has(sqls, q))
                => /\ Has(sqls', q)
                   /\ sqls'[q].Reason = <<"__temporary">>
                   /\ sqls'[q].CreatedAt = now
                   /\ tasks'[q] = tasks[q] + 1]_vars

\* a call has treated as stale a verdict of EXPLAIN older than the duration plus 30 s
StaleByAgeWitness ==
    \E c \in Callers :
        /\ calls[c].pc = "delete"
        /\ Has(sqls, calls[c].query)
        /\ sqls[calls[c].query].by = "explain"
        /\ now - sqls[calls[c].query].CreatedAt > CacheSeconds + 30

\* a plan row that meets a classification rule: a full scan, or an extra
\* that contains a trigger
RowTriggers(er) ==
    \/ er.Type # Nil /\ Deref(er.Type) \in {"ALL", "index"}
    \/ er.Extra # Nil /\ \E ss \in ExplainExtraAlarmSubstrs : Contains(Deref(er.Extra), ss)

\* the record s carries a plan with a triggering row of more than n rows
PlanJustifies(s, n) ==
    \E i \in 1..Len(s.Explain) :
        /\ RowTriggers(s.Explain[i])
        /\ s.Explain[i].Rows # Nil
        /\ Deref(s.Explain[i].Rows) > n

PlaceholderIsNormalAndInFlight ==
    \A q \in DOMAIN sqls :
        sqls[q].by = "before"
        => /\ sqls[q].Reason = <<"__temporary">>
           /\ sqls[q].AlarmType = Normal
           /\ tasks[q] > 0

\* a placeholder in the cache after an earlier EXPLAIN of the query has ended
PlaceholderWitness ==
    \E q \in DOMAIN sqls :
        /\ sqls[q].by = "before"
        /\ tasks[q] = 1
        /\ sqls[q].CreatedAt > 0
        /\ db # "nil"

\* C9 (as stated): every record with reason __temporary has verdict normal
\* and an EXPLAIN goroutine of its query in flight.
TemporaryIsNormalAndInFlight ==
    \A q \in DOMAIN sqls :
        sqls[q].Reason = <<"__temporary">>
        => sqls[q].AlarmType = Normal /\ tasks[q] > 0

\* C10 (as amended): AddBlacklistQuery stores a record with exactly the
\* given verdict and reason, no args and no plan, whatever was there; a call
\* that is audited and loads that record banned, and does not treat it as
\* stale, returns ErrBanned without invoking the inner operation.
BlacklistedIsStoredAndRefused ==
    [][/\ \A q \in AdminQueries, in \in BlacklistInputs :
             AddBlacklistQuery(q, in[1], in[2])
             => /\ Has(sqls', q)
                /\ sqls'[q].Query = q
                /\ sqls'[q].AlarmType = in[1]
                /\ sqls'[q].Reason = in[2]
                /\ sqls'[q].Args = Nil
                /\ sqls'[q].Explain = Nil
                /\ \A k \in DOMAIN sqls' \ {q} : Has(sqls, k) /\ sqls'[k] = sqls[k]
       /\ \A c \in Callers :
             LET call == calls[c]
                 q == call.query
             IN (/\ call.pc = "load"
                 /\ calls'[c] # call
                 /\ Has(sqls, q)
                 /\ sqls[q].by = "AddBlacklistQuery"
                 /\ sqls[q].AlarmType = Banned
                 /\ calls'[c].pc # "delete")
                => /\ calls'[c].pc = "ret"
                   /\ calls'[c].err.text = "sql is banned"
                   /\ calls'[c].inner = 0]_vars

\* a call refused on a record that AddBlacklistQuery put in place of a verdict of EXPLAIN
BlacklistedWitness ==
    \E c \in Callers :
        /\ calls[c].pc = "ret"
        /\ calls[c].err.text = "sql is banned"
        /\ Has(sqls, calls[c].query)
        /\ sqls[calls[c].query].by = "AddBlacklistQuery"
        /\ sqls[calls[c].query].Reason = <<"test">>
        /\ sqls[calls[c].query].Args = Nil
        /\ tasks[calls[c].query] = 0
        /\ db # "nil"

\* C10 (as stated): while the cache holds a banned record stored by
\* AddBlacklistQuery, a call of that query does not pass before(): it is not
\* let through at entry and, when it loads the record, it is refused.
BlacklistedIsAlwaysRefused ==
    [][\A c \in Callers :
          LET call == calls[c]
              q == calls'[c].query
          IN (/\ calls'[c] # call
              /\ call.pc \in {"idle", "ret", "load"}
              /\ Has(sqls, q)
              /\ sqls[q].by = "AddBlacklistQuery"
              /\ sqls[q].AlarmType = Banned)
             => \/ calls'[c].pc = "load"
                \/ calls'[c].pc = "ret" /\ calls'[c].err.text = "sql is banned"]_vars

(***************************************************************************)
(* Audit.ShouldAudit and DefaultShouldAudit applied on their own, under    *)
(* every whitelist the operators can build.                                *)
(***************************************************************************)
\* the statements ShouldAudit is asked about
AuditQueries ==
    Queries \cup {TablesQuery, "tables-lower", "dml-trimmed", "padded", "short", "bare", ""}

\* the statements the operators put on the whitelist and take off it
WhitelistQueries == {TablesQuery, "dml", "ddl", "padded", "short"}

\* the strings DefaultShouldAudit is asked about: whitespace, a word, a tail
AuditStrings ==
    { lead \o word \o tail :
        lead \in {<<>>, <<" ">>, <<"\n", "\t">>},
        word \in { <<"s", "e", "l", "e", "c", "t">>, <<"S", "E", "L", "E", "C", "T">>,
                   <<"I", "n", "s", "e", "r", "t">>, <<"u", "p", "d", "a", "t", "E">>,
                   <<"D", "e", "L", "e", "T", "e">>, <<"s", "e", "l", "e", "c">>,
                   <<"s", "e", "l", "e", "c", "x">>, <<"s", "e", " ", "l", "e", "c", "t">>,
                   <<"c", "r", "e", "a", "t", "e">>, <<>> },
        tail \in {<<>>, <<" ">>, <<"e", "d">>, <<" ", "t", "\n">>} }

\* ok := audit.ShouldAudit(query)
ApplyShouldAudit(query) ==
    /\ fn' = [op |-> "ShouldAudit", query |-> query, out |-> ShouldAudit(query)]
    /\ UNCHANGED <<AuditState, audit, drv, mock>>

\* ok := DefaultShouldAudit(query)
ApplyDefaultShouldAudit(query) ==
    /\ fn' = [op |-> "DefaultShouldAudit", query |-> query, out |-> DefaultShouldAudit(query)]
    /\ UNCHANGED <<AuditState, audit, drv, mock>>

NextShouldAudit ==
    \/ \E q \in WhitelistQueries : AddWhitelistQuery(q)
    \/ \E q \in WhitelistQueries : DelWhitelistQuery(q)
    \/ \E q \in AuditQueries : ApplyShouldAudit(q)
    \/ \E s \in AuditStrings : ApplyDefaultShouldAudit(s)

SpecShouldAudit == Init /\ [][NextShouldAudit]_vars

(***************************************************************************)
(* The driver shim: Wrap, Driver.Open, the connection and statement types  *)
(* it returns, and calls through a stack of middlewares.                   *)
(***************************************************************************)
\* the interfaces a connection of the vendor driver may implement; its
\* statements implement StmtExecContext and StmtQueryContext or neither
VendorConns ==
    { [type |-> "vendor", BeginTx |-> b,
       ExecerContext |-> e = "context", Execer |-> e = "legacy",
       QueryerContext |-> q = "context", Queryer |-> q = "legacy",
       SessionResetter |-> r, ConnPrepareContext |-> p, StmtContext |-> st] :
        b \in BOOLEAN, e \in {"none", "legacy", "context"},
        q \in {"none", "legacy", "context"}, r \in BOOLEAN,
        p \in BOOLEAN, st \in BOOLEAN }

\* a middleware that notes the call, refuses it or delegates, notes the return
Middlewares == {[refuses |-> r] : r \in BOOLEAN}

\* []driver.NamedValue as database/sql builds them: Ordinal is the position
NamedValues ==
    { <<>>,
      <<[Name |-> "", Ordinal |-> 1, Value |-> "a"]>>,
      <<[Name |-> "", Ordinal |-> 1, Value |-> "a"], [Name |-> "", Ordinal |-> 2, Value |-> "b"]>>,
      <<[Name |-> "", Ordinal |-> 1, Value |-> "b"], [Name |-> "n", Ordinal |-> 2, Value |-> "a"]>>,
      <<[Name |-> "n", Ordinal |-> 1, Value |-> "a"]>> }

Ops == {"ExecContext", "QueryContext"}
Interface(op) == IF op = "ExecContext" THEN "ExecerContext" ELSE "QueryerContext"
Legacy(op) == IF op = "ExecContext" THEN "Exec" ELSE "Query"
LegacyInterface(op) == IF op = "ExecContext" THEN "Execer" ELSE "Queryer"

isExecer(conn) == conn.ExecerContext \/ conn.Execer
isQueryer(conn) == conn.QueryerContext \/ conn.Queryer
isSessionResetter(conn) == conn.SessionResetter

\* the type Driver.Open chooses for the connection it returns
ConnType(conn) ==
    IF isExecer(conn) /\ isQueryer(conn) /\ isSessionResetter(conn)
    THEN "ExecerQueryerContextWithSessionResetter"
    ELSE IF isExecer(conn) /\ isQueryer(conn) THEN "ExecerQueryerContext"
    ELSE IF isExecer(conn) THEN "ExecerContext"
    ELSE IF isQueryer(conn) THEN "QueryerContext"
    ELSE "Conn"

\* the method set of the returned type, as the interfaces it implements
Wrapped(conn) ==
    LET t == ConnType(conn)
        execer == t \in {"ExecerQueryerContextWithSessionResetter", "ExecerQueryerContext",
                         "ExecerContext"}
        queryer == t \in {"ExecerQueryerContextWithSessionResetter", "ExecerQueryerContext",
                          "QueryerContext"}
    IN [type |-> t, BeginTx |-> TRUE,
        ExecerContext |-> execer, Execer |-> execer,
        QueryerContext |-> queryer, Queryer |-> FALSE,
        SessionResetter |-> t = "ExecerQueryerContextWithSessionResetter",
        ConnPrepareContext |-> TRUE, StmtContext |-> TRUE]

ErrOpen == "dial failed"
ErrBeginTx == "driver must implement driver.ConnBeginTx"
ErrNamed == "sql: driver does not support the use of Named Parameters"
ErrRefused == "refused by middleware"

\* faulty variant: the connection is wrapped whatever it implements
RECURSIVE DriverOpenUnchecked(_, _, _)
DriverOpenUnchecked(vendor, k, fails) ==
    IF k = 0
    THEN IF fails THEN [conn |-> Nil, err |-> ErrOpen] ELSE [conn |-> Ptr(vendor), err |-> ""]
    ELSE LET in == DriverOpenUnchecked(vendor, k - 1, fails)
         IN IF in.err # "" THEN in
            ELSE [conn |-> Ptr(Wrapped(Deref(in.conn))), err |-> ""]

\* Driver.Open of the k-th driver of the stack; the 0-th is the vendor's
RECURSIVE DriverOpen(_, _, _)
DriverOpen(vendor, k, fails) ==
    IF k = 0
    THEN IF fails THEN [conn |-> Nil, err |-> ErrOpen] ELSE [conn |-> Ptr(vendor), err |-> ""]
    ELSE LET in == DriverOpen(vendor, k - 1, fails)
         IN IF in.err # "" THEN in
            ELSE IF ~Deref(in.conn).BeginTx THEN [conn |-> Nil, err |-> ErrBeginTx]
            ELSE [conn |-> Ptr(Wrapped(Deref(in.conn))), err |-> ""]

\* the connection the k-th driver of the stack holds once opened
RECURSIVE ConnAt(_, _)
ConnAt(vendor, k) == IF k = 0 THEN vendor ELSE Wrapped(ConnAt(vendor, k - 1))

\* faulty variant: the names of the parameters are ignored
namedValueToValuePositional(named) ==
    [dargs |-> [n \in 1..Len(named) |-> named[n].Value], err |-> ""]

namedValueToValue(named) ==
    IF \E n \in 1..Len(named) : named[n].Name # ""
    THEN [dargs |-> <<>>, err |-> ErrNamed]
    ELSE [dargs |-> [n \in 1..Len(named) |-> named[n].Value], err |-> ""]

\* values[arg.Ordinal-1] = arg.Value for each arg in turn
ByOrdinal(args) ==
    [i \in 1..Len(args) |->
        LET at == {n \in 1..Len(args) : args[n].Ordinal = i}
        IN IF at = {} THEN Nil ELSE args[CHOOSE n \in at : \A o \in at : o <= n].Value]

Event(who, at, op, query, args) ==
    [who |-> who, at |-> at, op |-> op, query |-> query, args |-> args]

\* an operation of the vendor driver: noted, then it fails or succeeds
Vendor(op, query, args, fails) ==
    [log |-> <<Event(0, "call", op, query, args)>>,
     err |-> IF fails THEN ErrDriver.text ELSE ""]

\* m.ExecContext(next)(ctx, query, args) of the middleware m installed at layer k
Through(m, k, op, query, args, next) ==
    IF m.refuses
    THEN [log |-> <<Event(k, "call", op, query, args), Event(k, "return", op, query, args)>>,
          err |-> ErrRefused]
    ELSE [log |-> <<Event(k, "call", op, query, args)>> \o next.log
                    \o <<Event(k, "return", op, query, args)>>,
          err |-> next.err]

\* faulty variant: every driver of the stack calls the vendor's connection
ConnCallFlat(layers, vendor, k, op, query, args, fails) ==
    IF k = 0 THEN Vendor(op, query, args, fails)
    ELSE Through(layers[k], k, op, query, args,
                 IF vendor[Interface(op)] THEN Vendor(op, query, args, fails)
                 ELSE Vendor(Legacy(op), query, namedValueToValue(args).dargs, fails))

\* conn.ExecContext or conn.QueryContext on the connection of the k-th
\* driver; only the vendor's connection can be a legacy one
RECURSIVE ConnCall(_, _, _, _, _, _, _)
ConnCall(layers, vendor, k, op, query, args, fails) ==
    IF k = 0 THEN Vendor(op, query, args, fails)
    ELSE LET inner == ConnAt(vendor, k - 1)
             next == IF inner[Interface(op)]
                     THEN ConnCall(layers, vendor, k - 1, op, query, args, fails)
                     ELSE IF inner[LegacyInterface(op)]
                     THEN LET nv == namedValueToValue(args)
                          IN IF nv.err # "" THEN [log |-> <<>>, err |-> nv.err]
                             ELSE Vendor(Legacy(op), query, nv.dargs, fails)
                     ELSE [log |-> <<>>, err |-> "created for a non Execer driver.Conn"]
         IN Through(layers[k], k, op, query, args, next)

\* a statement of the vendor driver, prepared for the text query
VendorStmt(vendor, query, via) ==
    [level |-> 0, query |-> query, via |-> via, Stmt |-> Nil,
     StmtContext |-> vendor.StmtContext]

\* faulty variant: the statement of the wrapped connection is handed out as it is
RECURSIVE PrepareContextBare(_, _, _)
PrepareContextBare(vendor, k, query) ==
    IF k = 0 THEN VendorStmt(vendor, query, "PrepareContext")
    ELSE IF ConnAt(vendor, k - 1).ConnPrepareContext
         THEN PrepareContextBare(vendor, k - 1, query)
         ELSE VendorStmt(vendor, query, "Prepare")

\* conn.PrepareContext(ctx, query) on the connection of the k-th driver
RECURSIVE PrepareContext(_, _, _)
PrepareContext(vendor, k, query) ==
    IF k = 0 THEN VendorStmt(vendor, query, "PrepareContext")
    ELSE LET stmt == IF ConnAt(vendor, k - 1).ConnPrepareContext
                     THEN PrepareContext(vendor, k - 1, query)
                     ELSE VendorStmt(vendor, query, "Prepare")
         IN [level |-> k, query |-> query, via |-> "PrepareContext", Stmt |-> Ptr(stmt),
             StmtContext |-> TRUE]

\* stmt.ExecContext or stmt.QueryContext on a statement
RECURSIVE StmtCall(_, _, _, _, _)
StmtCall(layers, stmt, op, args, fails) ==
    IF stmt.level = 0 THEN Vendor(op, stmt.query, args, fails)
    ELSE LET inner == Deref(stmt.Stmt)
             next == IF inner.StmtContext
                     THEN StmtCall(layers, inner, op, args, fails)
                     ELSE Vendor(Legacy(op), inner.query, ByOrdinal(args), fails)
         IN Through(layers[stmt.level], stmt.level, op, stmt.query, args, next)

\* the vendor driver registered, nothing wrapped around it yet
InitDriver ==
    /\ Provisioned
    /\ whitelist = {TablesQuery}
    /\ audit = [AlarmThreshold |-> AlarmThreshold, BannedThreshold |-> BannedThreshold]
    /\ fn = NoCall
    /\ mock = NoMock
    /\ drv \in { [layers |-> <<>>, vendor |-> v, opened |-> FALSE, conn |-> Nil, err |-> "",
                   stmt |-> Nil, text |-> "", last |-> [on |-> "none"]] : v \in VendorConns }

\* drv = Wrap(drv, m)
Wrap(m) ==
    /\ ~drv.opened
    /\ Len(drv.layers) < MaxLayers
    /\ drv' = [drv EXCEPT !.layers = Append(@, m)]
    /\ UNCHANGED <<AuditState, audit, fn, mock>>

\* conn, err := drv.Open(name)
Open(fails) ==
    /\ ~drv.opened
    /\ Len(drv.layers) >= 1
    /\ LET r == DriverOpen(drv.vendor, Len(drv.layers), fails)
       IN drv' = [drv EXCEPT !.opened = TRUE, !.conn = r.conn, !.err = r.err]
    /\ UNCHANGED <<AuditState, audit, fn, mock>>

\* conn.ExecContext(ctx, query, args), conn.QueryContext(ctx, query, args)
ConnDo(op, query, args, fails) ==
    /\ drv.conn # Nil
    /\ Deref(drv.conn)[Interface(op)]
    /\ drv' = [drv EXCEPT !.last =
                 [on |-> "conn", op |-> op, query |-> query, args |-> args,
                  out |-> ConnCall(drv.layers, drv.vendor, Len(drv.layers), op, query, args,
                                   fails)]]
    /\ UNCHANGED <<AuditState, audit, fn, mock>>

\* stmt, err := conn.PrepareContext(ctx, query)
Prepare(query, fails) ==
    /\ drv.conn # Nil
    /\ drv' = [drv EXCEPT
                 !.stmt = IF fails THEN Nil
                          ELSE Ptr(PrepareContext(drv.vendor, Len(drv.layers), query)),
                 !.text = IF fails THEN @ ELSE query,
                 !.last = [on |-> "prepare", query |-> query,
                           err |-> IF fails THEN ErrDriver.text ELSE ""]]
    /\ UNCHANGED <<AuditState, audit, fn, mock>>

\* stmt.ExecContext(ctx, args), stmt.QueryContext(ctx, args)
StmtDo(op, args, fails) ==
    /\ drv.stmt # Nil
    /\ drv' = [drv EXCEPT !.last =
                 [on |-> "stmt", op |-> op, query |-> Deref(drv.stmt).query, args |-> args,
                  out |-> StmtCall(drv.layers, Deref(drv.stmt), op, args, fails)]]
    /\ UNCHANGED <<AuditState, audit, fn, mock>>

NextDriver ==
    \/ \E m \in Middlewares : Wrap(m)
    \/ \E fails \in BOOLEAN : Open(fails)
    \/ \E op \in Ops, q \in Queries, args \in NamedValues, fails \in BOOLEAN :
          ConnDo(op, q, args, fails)
    \/ \E q \in Queries, fails \in BOOLEAN : Prepare(q, fails)
    \/ \E op \in Ops, args \in NamedValues, fails \in BOOLEAN : StmtDo(op, args, fails)

SpecDriver == InitDriver /\ [][NextDriver]_vars

(***************************************************************************)
(* The Mock middleware: two maps from the text of a statement to a Return, *)
(* filled by AddExec and AddQuery and by the calls that pass through.      *)
(***************************************************************************)
NewReturn(value, err) == [Value |-> value, Err |-> err]

\* what the operators record by hand and what the wrapped operation answers
CannedReturns == {NewReturn("canned", "")}
NextReturns == {NewReturn("fresh", ""), NewReturn("", ErrDriver.text)}

\* faulty variant: one map serves both operations
ReturnsOfShared(op) == "ExecReturns"

\* m.ExecReturns for ExecContext, m.QueryReturns for QueryContext
ReturnsOf(op) == IF op = "ExecContext" THEN "ExecReturns" ELSE "QueryReturns"

IdleMock == [pc |-> "idle"]

\* mock := NewMock()
InitMock ==
    /\ Provisioned
    /\ whitelist = {TablesQuery}
    /\ audit = [AlarmThreshold |-> AlarmThreshold, BannedThreshold |-> BannedThreshold]
    /\ fn = NoCall
    /\ drv = NoDriver
    /\ mock = [built |-> TRUE, ExecReturns |-> << >>, QueryReturns |-> << >>,
               calls |-> [c \in Callers |-> IdleMock]]

\* mock.AddExec(query, ret)
AddExec(query, ret) ==
    /\ mock' = [mock EXCEPT !.ExecReturns = Store(@, query, ret)]
    /\ UNCHANGED <<AuditState, audit, fn, drv>>

\* mock.AddQuery(query, ret)
AddQuery(query, ret) ==
    /\ mock' = [mock EXCEPT !.QueryReturns = Store(@, query, ret)]
    /\ UNCHANGED <<AuditState, audit, fn, drv>>

\* the closure of Mock.ExecContext or Mock.QueryContext is entered: Load(query)
\* and, on a hit, return ret.Value, ret.Err
MockLoad(c, op, query) ==
    /\ mock.calls[c].pc \in {"idle", "done"}
    /\ LET m == mock[ReturnsOf(op)]
       IN mock' = [mock EXCEPT !.calls[c] =
                     IF Has(m, query)
                     THEN [pc |-> "done", op |-> op, query |-> query, next |-> 0,
                           ret |-> m[query]]
                     ELSE [pc |-> "next", op |-> op, query |-> query, next |-> 0]]
    /\ UNCHANGED <<AuditState, audit, fn, drv>>

\* results, err := next(ctx, query, args)
MockNext(c, outcome) ==
    /\ mock.calls[c].pc = "next"
    /\ mock' = [mock EXCEPT !.calls[c] =
                  [pc |-> "store", op |-> @.op, query |-> @.query, next |-> @.next + 1,
                   outcome |-> outcome]]
    /\ UNCHANGED <<AuditState, audit, fn, drv>>

\* Store(query, NewReturn(results, err)); return results, err
MockStore(c) ==
    /\ mock.calls[c].pc = "store"
    /\ LET call == mock.calls[c]
       IN mock' = [mock EXCEPT
                     ![ReturnsOf(call.op)] = Store(@, call.query, call.outcome),
                     !.calls[c] = [pc |-> "done", op |-> call.op, query |-> call.query,
                                   next |-> call.next, ret |-> call.outcome]]
    /\ UNCHANGED <<AuditState, audit, fn, drv>>

NextMock ==
    \/ \E q \in Queries, ret \in CannedReturns : AddExec(q, ret)
    \/ \E q \in Queries, ret \in CannedReturns : AddQuery(q, ret)
    \/ \E c \in Callers, op \in Ops, q \in Queries : MockLoad(c, op, q)
    \/ \E c \in Callers, outcome \in NextReturns : MockNext(c, outcome)
    \/ \E c \in Callers : MockStore(c)

SpecMock == InitMock /\ [][NextMock]_vars

(***************************************************************************)
(* The Log middleware: LogHooks.Before, After and OnError around one       *)
(* statement, with the events handed to the logger.                        *)
(***************************************************************************)
ErrSkip ==
    [text |-> "driver: skip fast-path; continue as if unimplemented", kind |-> "",
     message |-> ""]

\* the errors a statement may end with
StatementErrors == {ErrDriver, ErrSkip, WithMessage(ErrSkip, "exec")}

\* logkit.ZapAnyN: the value cut to n characters
ZapAnyN(arg, n) == IF Len(arg) > n THEN SubSeq(arg, 1, n) \o <<"...">> ELSE arg

\* the event h.log hands to the logger
LogEvent(h, call, err, rt) ==
    [level |-> h.Level, msg |-> "sql log", error |-> err, query |-> call.query, rt |-> rt,
     gsid |-> call.gsid,
     args |-> [i \in 1..Len(call.args) |->
                 IF h.FieldSize <= 0 THEN call.args[i] ELSE ZapAnyN(call.args[i], h.FieldSize)]]

\* hooks := &LogHooks{Logger, Level, FieldSize}
InitLog ==
    /\ Provisioned
    /\ whitelist = {TablesQuery}
    /\ audit = [AlarmThreshold |-> AlarmThreshold, BannedThreshold |-> BannedThreshold]
    /\ drv = NoDriver
    /\ mock = NoMock
    /\ fn \in {[op |-> "log", pc |-> "idle", h |-> [Level |-> "info", FieldSize |-> n]] :
                 n \in {0, 2, 5}}

\* ctx, _ = h.Before(ctx, query, args...)
LogBefore(query, args, gsid) ==
    /\ fn.pc \in {"idle", "done"}
    /\ fn' = [op |-> "log", pc |-> "started", h |-> fn.h, query |-> query, args |-> args,
              gsid |-> gsid, start |-> TRUE]
    /\ UNCHANGED <<AuditState, audit, drv, mock>>

\* h.After(ctx, query, args...)
LogAfter(rt) ==
    /\ fn.pc = "started"
    /\ fn' = [op |-> "log", pc |-> "done", h |-> fn.h, query |-> fn.query, in |-> NilErr,
              events |-> <<LogEvent(fn.h, fn, NilErr, rt)>>, ret |-> NilErr]
    /\ UNCHANGED <<AuditState, audit, drv, mock>>

\* faulty variant: every error is logged
LogOnErrorAlways(err, rt) ==
    /\ fn.pc = "started"
    /\ fn' = [op |-> "log", pc |-> "done", h |-> fn.h, query |-> fn.query, in |-> err,
              events |-> <<LogEvent(fn.h, fn, err, rt)>>, ret |-> err]
    /\ UNCHANGED <<AuditState, audit, drv, mock>>

\* h.OnError(ctx, err, query, args...)
LogOnError(err, rt) ==
    /\ fn.pc = "started"
    /\ fn' = [op |-> "log", pc |-> "done", h |-> fn.h, query |-> fn.query, in |-> err,
              events |-> IF ErrorsIs(err, ErrSkip) THEN <<>>
                         ELSE <<LogEvent(fn.h, fn, err, rt)>>,
              ret |-> err]
    /\ UNCHANGED <<AuditState, audit, drv, mock>>

NextLog ==
    \/ \E q \in Queries, args \in {<<>>, <<<<"a", "b", "c">>>>}, gsid \in {"-", "foo"} :
          LogBefore(q, args, gsid)
    \/ \E rt \in 0..1 : LogAfter(rt)
    \/ \E err \in StatementErrors, rt \in 0..1 : LogOnError(err, rt)

SpecLog == InitLog /\ [][NextLog]_vars

(***************************************************************************)
(* The shadow-table rewriter: ShadowTable.Provision, the visitor Enter     *)
(* walked over the parsed statement, Rewrite, and Rewrite.Args.            *)
(***************************************************************************)
\* a node of the parser's syntax tree: name of a TableName or ColumnName,
\* qual the table qualifier of a ColumnName or WildCardField, alias the
\* AsName of a TableSource, kids the nodes Accept visits below it
Node(kind, name, qual, alias, kids) ==
    [kind |-> kind, name |-> name, qual |-> qual, alias |-> alias, kids |-> kids]

\* the statements given to the rewriter
RewriterSqls ==
    { "select * from t where a = ?",
      "SELECT c.id FROM c WHERE c.id = ?",
      "select m.id from m join (select tid from maps where id = ?) as t1 on m.id = t1.tid",
      "select x.a from t as x",
      "select t.* from t",
      "insert into t (a) values (?)",
      "update t set a = ? where t.b = ?",
      "delete from t where t.a = ?",
      "create table t (a int)",
      "truncate table t",
      "selec" }

\* st.parser.Parse(sql, "", ""): the first statement, Nil on a parser error
Parse(sql) ==
    LET Table(n) == Node("TableSource", "", "", "", <<Node("TableName", n, "", "", <<>>)>>)
        As(n, a) == Node("TableSource", "", "", a, <<n>>)
        Col(q, n) == Node("ColumnName", n, q, "", <<>>)
        Star(q) == Node("WildCardField", "", q, "", <<>>)
        Stmt(k, kids) == Node(k, "", "", "", kids)
    IN CASE sql = "select * from t where a = ?" ->
              Ptr(Stmt("SelectStmt", <<Star(""), Table("t"), Col("", "a")>>))
         [] sql = "SELECT c.id FROM c WHERE c.id = ?" ->
              Ptr(Stmt("SelectStmt", <<Col("c", "id"), Table("c"), Col("c", "id")>>))
         [] sql = "select m.id from m join (select tid from maps where id = ?) as t1 on m.id = t1.tid" ->
              Ptr(Stmt("SelectStmt",
                       <<Col("m", "id"),
                         Stmt("Join",
                              <<Table("m"),
                                As(Stmt("SelectStmt",
                                        <<Col("", "tid"), Table("maps"), Col("", "id")>>),
                                   "t1"),
                                Col("m", "id"), Col("t1", "tid")>>)>>))
         [] sql = "select x.a from t as x" ->
              Ptr(Stmt("SelectStmt",
                       <<Col("x", "a"), As(Node("TableName", "t", "", "", <<>>), "x")>>))
         [] sql = "select t.* from t" ->
              Ptr(Stmt("SelectStmt", <<Star("t"), Table("t")>>))
         [] sql = "insert into t (a) values (?)" ->
              Ptr(Stmt("InsertStmt", <<Table("t"), Col("", "a")>>))
         [] sql = "update t set a = ? where t.b = ?" ->
              Ptr(Stmt("UpdateStmt", <<Table("t"), Col("", "a"), Col("t", "b")>>))
         [] sql = "delete from t where t.a = ?" ->
              Ptr(Stmt("DeleteStmt", <<Table("t"), Col("t", "a")>>))
         [] sql = "create table t (a int)" ->
              Ptr(Stmt("CreateTableStmt", <<Node("TableName", "t", "", "", <<>>)>>))
         [] sql = "truncate table t" ->
              Ptr(Stmt("TruncateTableStmt", <<Node("TableName", "t", "", "", <<>>)>>))
         [] OTHER -> Nil

\* faulty variant: one of prefix and suffix missing is an error already
ShadowTableProvisionEither(st) ==
    IF st.Prefix = "" \/ st.Suffix = ""
    THEN [parser |-> FALSE, err |-> "shadow table with empty prefix and suffix"]
    ELSE [parser |-> TRUE, err |-> ""]

\* ShadowTable.Provision: the parser is set unless the configuration is refused
ShadowTableProvision(st) ==
    IF st.Prefix = "" /\ st.Suffix = ""
    THEN [parser |-> FALSE, err |-> "shadow table with empty prefix and suffix"]
    ELSE [parser |-> TRUE, err |-> ""]

\* ShadowTable.Enter on one node
ShadowEnter(st, in) ==
    LET tn == IF in.kind = "TableName"
              THEN [in EXCEPT !.name = st.Prefix \o @ \o st.Suffix] ELSE in
        ts == IF tn.kind = "TableSource" /\ tn.alias # ""
              THEN [tn EXCEPT !.alias = st.Prefix \o @ \o st.Suffix] ELSE tn
    IN IF ts.kind = "ColumnName" /\ ts.qual # ""
       THEN [ts EXCEPT !.qual = st.Prefix \o @ \o st.Suffix] ELSE ts

\* stmtNode.Accept(st): Enter on the node, then on the nodes below it
RECURSIVE Accept(_, _)
Accept(st, in) ==
    LET node == ShadowEnter(st, in)
    IN [node EXCEPT !.kids = [i \in 1..Len(node.kids) |-> Accept(st, node.kids[i])]]

\* faulty variant: every statement that parses is walked and restored
ShadowRewriteAll(st, sql) ==
    IF Parse(sql) = Nil THEN [text |-> "", tree |-> Nil, err |-> "parser sql faield"]
    ELSE [text |-> "restored", tree |-> Ptr(Accept(st, Deref(Parse(sql)))), err |-> ""]

\* ShadowTable.Rewrite: the text returned is the one given or the tree restored
ShadowRewrite(st, sql) ==
    IF Parse(sql) = Nil THEN [text |-> "", tree |-> Nil, err |-> "parser sql faield"]
    ELSE IF Deref(Parse(sql)).kind \notin {"SelectStmt", "InsertStmt", "UpdateStmt", "DeleteStmt"}
    THEN [text |-> sql, tree |-> Nil, err |-> ""]
    ELSE [text |-> "restored", tree |-> Ptr(Accept(st, Deref(Parse(sql)))), err |-> ""]

\* faulty variant: what a failed rewrite returned is cached as well
RewriteSqlAlwaysStores(cache, st, sql) ==
    IF Has(cache, sql) THEN [out |-> cache[sql], hit |-> TRUE, sqls |-> cache]
    ELSE LET r == ShadowRewrite(st, sql)
         IN [out |-> r, hit |-> FALSE,
             sqls |-> IF r.err = "" /\ r.tree = Nil THEN cache ELSE Store(cache, sql, r)]

\* ShadowTable.RewriteSql: the cache is consulted first and written after a
\* statement was walked and restored
RewriteSql(cache, st, sql) ==
    IF Has(cache, sql) THEN [out |-> cache[sql], hit |-> TRUE, sqls |-> cache]
    ELSE LET r == ShadowRewrite(st, sql)
         IN [out |-> r, hit |-> FALSE,
             sqls |-> IF r.err # "" \/ r.tree = Nil THEN cache ELSE Store(cache, sql, r)]

\* st := ShadowTable{Prefix, Suffix}
InitRewrite ==
    /\ Provisioned
    /\ whitelist = {TablesQuery}
    /\ audit = [AlarmThreshold |-> AlarmThreshold, BannedThreshold |-> BannedThreshold]
    /\ drv = NoDriver
    /\ mock = NoMock
    /\ fn \in { [op |-> "rewriter", st |-> [Prefix |-> p, Suffix |-> x], state |-> "new",
                  parser |-> FALSE, err |-> "", sqls |-> << >>, asked |-> {},
                  last |-> [on |-> "none"]] :
                   p \in {"", "p_"}, x \in {"", "_shadow"} }

\* err := st.Provision(ctx)
ProvisionShadow ==
    /\ fn.state = "new"
    /\ LET r == ShadowTableProvision(fn.st)
       IN fn' = [fn EXCEPT !.state = "provisioned", !.parser = r.parser, !.err = r.err]
    /\ UNCHANGED <<AuditState, audit, drv, mock>>

\* s, err := st.RewriteSql(sql)
DoRewriteSql(sql) ==
    /\ fn.parser
    /\ LET r == RewriteSql(fn.sqls, fn.st, sql)
       IN fn' = [fn EXCEPT !.sqls = r.sqls, !.asked = @ \cup {sql},
                           !.last = [on |-> "RewriteSql", sql |-> sql, out |-> r.out,
                                     hit |-> r.hit]]
    /\ UNCHANGED <<AuditState, audit, drv, mock>>

NextRewrite ==
    \/ ProvisionShadow
    \/ \E sql \in RewriterSqls : DoRewriteSql(sql)

SpecRewrite == InitRewrite /\ [][NextRewrite]_vars

\* the ArgOps of a Rewrite: a nil map, or a map from positions to NoOp or DelOp
ArgOpsPool ==
    { Nil, Ptr(<< >>), Ptr([i \in {1} |-> "DelOp"]), Ptr([i \in {1, 3} |-> "DelOp"]),
      Ptr([i \in {0, 1} |-> IF i = 0 THEN "NoOp" ELSE "DelOp"]),
      Ptr([i \in {0, 2} |-> "DelOp"]) }

\* faulty variant: the positions of the map are counted from one
RECURSIVE ArgsLoopFromOne(_, _, _, _)
ArgsLoopFromOne(ops, args, i, result) ==
    IF i >= Len(args) THEN result
    ELSE ArgsLoopFromOne(ops, args, i + 1,
                         IF (i + 1) \in DOMAIN ops /\ ops[i + 1] = "DelOp" THEN result
                         ELSE Append(result, args[i + 1]))

\* the loop of Rewrite.Args from position i on
RECURSIVE ArgsLoop(_, _, _, _)
ArgsLoop(ops, args, i, result) ==
    IF i >= Len(args) THEN result
    ELSE ArgsLoop(ops, args, i + 1,
                  IF i \in DOMAIN ops /\ ops[i] = "DelOp" THEN result
                  ELSE Append(result, args[i + 1]))

\* Rewrite.Args
RewriteArgs(ArgOps, args) ==
    IF ArgOps = Nil THEN [args |-> args, err |-> ""]
    ELSE [args |-> ArgsLoop(Deref(ArgOps), args, 0, <<>>), err |-> ""]

\* r := Rewrite{Query, ArgOps}
InitArgs ==
    /\ Provisioned
    /\ whitelist = {TablesQuery}
    /\ audit = [AlarmThreshold |-> AlarmThreshold, BannedThreshold |-> BannedThreshold]
    /\ drv = NoDriver
    /\ mock = NoMock
    /\ fn \in {[op |-> "Rewrite", ArgOps |-> ops, called |-> FALSE] : ops \in ArgOpsPool}

\* args, err := r.Args(args...)
DoArgs(args) ==
    /\ fn' = [op |-> "Rewrite", ArgOps |-> fn.ArgOps, called |-> TRUE, args |-> args,
              out |-> RewriteArgs(fn.ArgOps, args)]
    /\ UNCHANGED <<AuditState, audit, drv, mock>>

SpecArgs == InitArgs /\ [][\E args \in SeqsUpTo({"a", "b", "c"}, MaxArgs) : DoArgs(args)]_vars

(***************************************************************************)
(* SyncMap: a map behind a read-write mutex.  fn.kvs is the map, fn.lock   *)
(* the goroutine holding the write lock (0 when free), fn.g the position   *)
(* of each goroutine inside LoadOrStore.                                   *)
(***************************************************************************)

SyncKeys == {"k1", "k2"}

SyncValues == {"a", "b"}

\* a mutex that excludes nobody
MutexLockNever(lock) == TRUE

\* m.lock.Lock() returns only when no goroutine holds the lock
MutexLock(lock) == lock = 0

\* m := NewSyncMap(), possibly after a Store of k1
InitSyncMap ==
    /\ Provisioned
    /\ whitelist = {TablesQuery}
    /\ audit = [AlarmThreshold |-> AlarmThreshold, BannedThreshold |-> BannedThreshold]
    /\ drv = NoDriver
    /\ mock = NoMock
    /\ fn \in {[op |-> "SyncMap", kvs |-> kvs, before |-> kvs, lock |-> 0,
                g |-> [i \in Callers |-> [pc |-> "idle"]]] :
               kvs \in {<< >>, [k \in {"k1"} |-> "z"]}}

\* LoadOrStore(key, value): m.lock.Lock()
SyncLock(i, key, value) ==
    /\ fn.op = "SyncMap"
    /\ fn.g[i].pc = "idle"
    /\ MutexLock(fn.lock)
    /\ fn' = [fn EXCEPT !.lock = i,
                        !.g[i] = [pc |-> "locked", key |-> key, value |-> value]]
    /\ UNCHANGED <<AuditState, audit, drv, mock>>

\* actual, loaded = m.kvs[key]
SyncRead(i) ==
    /\ fn.op = "SyncMap"
    /\ fn.g[i].pc = "locked"
    /\ LET c == fn.g[i]
       IN fn' = [fn EXCEPT !.g[i] = [pc |-> "read", key |-> c.key, value |-> c.value,
                                     loaded |-> Has(fn.kvs, c.key),
                                     actual |-> IF Has(fn.kvs, c.key)
                                                THEN Ptr(fn.kvs[c.key]) ELSE Nil]]
    /\ UNCHANGED <<AuditState, audit, drv, mock>>

\* if !loaded { m.kvs[key] = value; actual = value }
SyncWrite(i) ==
    /\ fn.op = "SyncMap"
    /\ fn.g[i].pc = "read"
    /\ LET c == fn.g[i]
       IN fn' = IF c.loaded
                THEN [fn EXCEPT !.g[i].pc = "written"]
                ELSE [fn EXCEPT !.kvs = Store(fn.kvs, c.key, c.value),
                                !.g[i].pc = "written",
                                !.g[i].actual = Ptr(c.value)]
    /\ UNCHANGED <<AuditState, audit, drv, mock>>

\* return, with the deferred m.lock.Unlock()
SyncUnlock(i) ==
    /\ fn.op = "SyncMap"
    /\ fn.g[i].pc = "written"
    /\ fn' = [fn EXCEPT !.lock = IF fn.lock = i THEN 0 ELSE fn.lock,
                        !.g[i].pc = "returned"]
    /\ UNCHANGED <<AuditState, audit, drv, mock>>

NextSyncMap ==
    \E i \in Callers :
        \/ \E key \in SyncKeys, value \in SyncValues : SyncLock(i, key, value)
        \/ SyncRead(i)
        \/ SyncWrite(i)
        \/ SyncUnlock(i)

SpecSyncMap == InitSyncMap /\ [][NextSyncMap]_vars

(***************************************************************************)
(* Audit.Provision: the defaults an Audit gets.  fn.a is the Audit as the  *)
(* configuration left it, fn.cfg the configuration it was built from.      *)
(***************************************************************************)

DefaultAlarmThreshold == 500

DefaultBannedThreshold == 100000

\* the values a configuration may give to each field; Nil is a field left out
AuditConfigs ==
    [AlarmThreshold : {Nil, Ptr(0), Ptr(7)},
     BannedThreshold : {-1, 0, 2},
     SeenSqlLogLevel : {Nil, Ptr(Normal), Ptr(Banned)},
     ExplainExtraAlarmSubstrs : SUBSET {<<"Using", "where">>, <<"filesort">>},
     Whitelist : SUBSET {"dml", TablesQuery},
     explainExtraAlarmSubstrs : {Nil},
     whitelist : {{}}]

\* a Provision that takes a threshold of zero for one left out
AuditProvisionZeroIsUnset(a) ==
    [a EXCEPT
        !.AlarmThreshold = IF a.AlarmThreshold = Nil \/ a.AlarmThreshold = Ptr(0)
                           THEN Ptr(DefaultAlarmThreshold) ELSE @,
        !.BannedThreshold = IF a.BannedThreshold <= 0 THEN DefaultBannedThreshold ELSE @,
        !.SeenSqlLogLevel = IF a.SeenSqlLogLevel = Nil THEN Ptr(DefaultSeenSqlLogLevel) ELSE @,
        !.explainExtraAlarmSubstrs =
            Ptr((IF a.explainExtraAlarmSubstrs = Nil THEN ExplainExtraAlarmSubstrs
                 ELSE Deref(a.explainExtraAlarmSubstrs)) \cup a.ExplainExtraAlarmSubstrs),
        !.whitelist = a.whitelist \cup {TablesQuery} \cup a.Whitelist]

\* func (audit *Audit) Provision(ctx) error: the fields the verdicts depend on
AuditProvision(a) ==
    [a EXCEPT
        !.AlarmThreshold = IF a.AlarmThreshold = Nil THEN Ptr(DefaultAlarmThreshold) ELSE @,
        !.BannedThreshold = IF a.BannedThreshold <= 0 THEN DefaultBannedThreshold ELSE @,
        !.SeenSqlLogLevel = IF a.SeenSqlLogLevel = Nil THEN Ptr(DefaultSeenSqlLogLevel) ELSE @,
        !.explainExtraAlarmSubstrs =
            Ptr((IF a.explainExtraAlarmSubstrs = Nil THEN ExplainExtraAlarmSubstrs
                 ELSE Deref(a.explainExtraAlarmSubstrs)) \cup a.ExplainExtraAlarmSubstrs),
        !.whitelist = a.whitelist \cup {TablesQuery} \cup a.Whitelist]

\* an Audit unmarshalled from its configuration
InitProvision ==
    /\ Provisioned
    /\ whitelist = {TablesQuery}
    /\ audit = [AlarmThreshold |-> AlarmThreshold, BannedThreshold |-> BannedThreshold]
    /\ drv = NoDriver
    /\ mock = NoMock
    /\ fn \in {[op |-> "Audit", cfg |-> a, a |-> a, provisions |-> 0] : a \in AuditConfigs}

\* err := audit.Provision(ctx), which the application may run more than once
DoProvision ==
    /\ fn.op = "Audit"
    /\ fn.provisions < 2
    /\ fn' = [fn EXCEPT !.a = AuditProvision(fn.a), !.provisions = @ + 1]
    /\ UNCHANGED <<AuditState, audit, drv, mock>>

SpecProvision == InitProvision /\ [][DoProvision]_vars

(***************************************************************************)
(* The contexts of auditAsync.  fn.caller is the context of the request    *)
(* that spawned the task, fn.task the goroutine, fn.entry what the cache   *)
(* holds for the query, fn.elapsed the seconds since the task created its  *)
(* own context.                                                            *)
(***************************************************************************)

ExplainTimeout == 3

\* the task derives its context from the request
ExplainParentIsCaller == "caller"

\* context.WithTimeout(context.Background(), 3*time.Second)
ExplainParent == "Background"

\* ctx.Err() of the context the task hands to Explain
ExplainCtxErr(f) ==
    IF ExplainParent = "caller" /\ f.caller.err # "" THEN f.caller.err
    ELSE IF f.elapsed > ExplainTimeout THEN "context deadline exceeded"
    ELSE ""

\* before(q) has inserted the placeholder and called auditAsync
InitAsync ==
    /\ Provisioned
    /\ whitelist = {TablesQuery}
    /\ audit = [AlarmThreshold |-> AlarmThreshold, BannedThreshold |-> BannedThreshold]
    /\ drv = NoDriver
    /\ mock = NoMock
    /\ fn \in {[op |-> "auditAsync", query |-> q,
                caller |-> [pc |-> "next", err |-> ""],
                task |-> [pc |-> "spawned", out |-> ""],
                entry |-> [Reason |-> temporaryReason, AlarmType |-> Normal],
                elapsed |-> 0] : q \in Queries}

\* the request is cancelled, or its deadline passes
CancelCaller ==
    /\ fn.op = "auditAsync"
    /\ fn.caller.err = ""
    /\ \E err \in {"context canceled", "context deadline exceeded"} :
          fn' = [fn EXCEPT !.caller.err = err]
    /\ UNCHANGED <<AuditState, audit, drv, mock>>

\* the Exec/Query call that spawned the task returns
CallerReturns ==
    /\ fn.op = "auditAsync"
    /\ fn.caller.pc = "next"
    /\ fn' = [fn EXCEPT !.caller.pc = "ret"]
    /\ UNCHANGED <<AuditState, audit, drv, mock>>

\* explainCtx, cancel := context.WithTimeout(...)
TaskStart ==
    /\ fn.op = "auditAsync"
    /\ fn.task.pc = "spawned"
    /\ fn' = [fn EXCEPT !.task.pc = "explain", !.elapsed = 0]
    /\ UNCHANGED <<AuditState, audit, drv, mock>>

\* a second passes while EXPLAIN runs
TaskTick ==
    /\ fn.op = "auditAsync"
    /\ fn.task.pc = "explain"
    /\ fn.elapsed <= ExplainTimeout
    /\ fn' = [fn EXCEPT !.elapsed = @ + 1]
    /\ UNCHANGED <<AuditState, audit, drv, mock>>

\* ers, err := audit.Explain(explainCtx, ...): the database answers, fails,
\* or the call is abandoned with the error of its context
TaskExplainReturns ==
    /\ fn.op = "auditAsync"
    /\ fn.task.pc = "explain"
    /\ \/ \E at \in AlarmTypes :
             fn' = [fn EXCEPT !.task = [pc |-> "ended", out |-> "stored"],
                              !.entry = [Reason |-> <<"explained">>, AlarmType |-> at]]
       \/ \E err \in {"db"} \cup ({ExplainCtxErr(fn)} \ {""}) :
             fn' = [fn EXCEPT !.task = [pc |-> "ended", out |-> err],
                              !.entry = Nil]
    /\ UNCHANGED <<AuditState, audit, drv, mock>>

\* a panic in the goroutine: recover() deletes the entry
TaskPanics ==
    /\ fn.op = "auditAsync"
    /\ fn.task.pc \in {"spawned", "explain"}
    /\ fn' = [fn EXCEPT !.task = [pc |-> "ended", out |-> "panic"], !.entry = Nil]
    /\ UNCHANGED <<AuditState, audit, drv, mock>>

NextAsync ==
    \/ CancelCaller
    \/ CallerReturns
    \/ TaskStart
    \/ TaskTick
    \/ TaskExplainReturns
    \/ TaskPanics

SpecAsync == InitAsync /\ [][NextAsync]_vars

(***************************************************************************)
(* The wrappers Audit.ExecContext and Audit.QueryContext, phase by phase.  *)
(* fn.trace lists the phases run, fn.inner what next returned, fn.ret what *)
(* the wrapper returned.                                                   *)
(***************************************************************************)

\* what the inner operation may return: results, or an error with or without results
InnerReturns ==
    {[res |-> "results", err |-> NilErr]}
        \cup [res : {"nil", "results"}, err : {ErrDriver, ErrSkip}]

\* faulty variant: the post-phase runs whatever next returned
AfterNextAlways(f, r) ==
    [f EXCEPT !.pc = "after", !.trace = Append(@, "next"), !.inner = Ptr(r)]

\* results, err := next(ctx, query, args); if err != nil { return results, err }
AfterNext(f, r) ==
    IF r.err # NilErr
    THEN [f EXCEPT !.pc = "ret", !.trace = Append(@, "next"), !.inner = Ptr(r),
                   !.ret = Ptr(r)]
    ELSE [f EXCEPT !.pc = "after", !.trace = Append(@, "next"), !.inner = Ptr(r)]

\* the wrapper built by audit.ExecContext(next) or audit.QueryContext(next) is called
InitWrapper ==
    /\ Provisioned
    /\ whitelist = {TablesQuery}
    /\ audit = [AlarmThreshold |-> AlarmThreshold, BannedThreshold |-> BannedThreshold]
    /\ drv = NoDriver
    /\ mock = NoMock
    /\ fn \in {[op |-> op, query |-> q, args |-> args, pc |-> "before", trace |-> <<>>,
                ctxStart |-> FALSE, inner |-> Nil, ret |-> Nil] :
               op \in {"Audit.ExecContext", "Audit.QueryContext"},
               q \in Queries \cup {TablesQuery},
               args \in {<<>>, <<"x">>}}

\* ctx, err := audit.before(ctx, query, ifaceArgs...); if err != nil { return nil, err }
WrapperBefore ==
    /\ fn.op \in {"Audit.ExecContext", "Audit.QueryContext"}
    /\ fn.pc = "before"
    /\ \/ /\ ShouldAudit(fn.query)
          /\ fn' = [fn EXCEPT !.pc = "ret", !.trace = Append(@, "before"),
                              !.ret = Ptr([res |-> "nil",
                                           err |-> WithMessage(ErrBanned, fn.query)])]
       \/ \E start \in IF ShouldAudit(fn.query) THEN BOOLEAN ELSE {FALSE} :
             fn' = [fn EXCEPT !.pc = "next", !.trace = Append(@, "before"),
                              !.ctxStart = start]
    /\ UNCHANGED <<AuditState, audit, drv, mock>>

WrapperNext ==
    /\ fn.op \in {"Audit.ExecContext", "Audit.QueryContext"}
    /\ fn.pc = "next"
    /\ \E r \in InnerReturns : fn' = AfterNext(fn, r)
    /\ UNCHANGED <<AuditState, audit, drv, mock>>

\* _, err = audit.after(ctx, ...), which returns nil; return results, err
WrapperAfter ==
    /\ fn.op \in {"Audit.ExecContext", "Audit.QueryContext"}
    /\ fn.pc = "after"
    /\ fn' = [fn EXCEPT !.pc = "ret", !.trace = Append(@, "after"),
                        !.ret = Ptr([res |-> Deref(fn.inner).res, err |-> NilErr])]
    /\ UNCHANGED <<AuditState, audit, drv, mock>>

NextWrapper == WrapperBefore \/ WrapperNext \/ WrapperAfter

SpecWrapper == InitWrapper /\ [][NextWrapper]_vars

(***************************************************************************)
(* The EXPLAIN statements of the workers, sent through the wrapped DB and  *)
(* so through before() like any statement.  fn.entries are the keys of the *)
(* cache, fn.pending the statements whose worker has not yet sent its      *)
(* EXPLAIN, fn.sent the statements the workers sent, fn.spawns how many    *)
(* workers the application's and the workers' statements spawned.          *)
(***************************************************************************)

\* the statements of the application, as texts
AppTexts ==
    {Text(q) : q \in {"dml", "ddl", TablesQuery, "tables-lower", "dml-trimmed", "padded",
                      "bare"}}

\* "explain "+query
ExplainText(query) == <<"e", "x", "p", "l", "a", "i", "n", " ">> \o query

\* before() on a statement: not audited, already in the cache, or a first
\* sight that stores the placeholder and spawns a worker
BeforeText(f, query, from) ==
    IF query \in f.whitelist \/ ~DefaultShouldAudit(query) \/ query \in f.entries
    THEN f
    ELSE [f EXCEPT !.entries = @ \cup {query},
                   !.pending = @ \cup {query},
                   !.spawns[from] = @ + 1]

InitChain ==
    /\ Provisioned
    /\ whitelist = {TablesQuery}
    /\ audit = [AlarmThreshold |-> AlarmThreshold, BannedThreshold |-> BannedThreshold]
    /\ drv = NoDriver
    /\ mock = NoMock
    /\ fn = [op |-> "Explain", whitelist |-> {Text(TablesQuery)}, entries |-> {},
             pending |-> {}, sent |-> <<>>, calls |-> 0,
             spawns |-> [app |-> 0, worker |-> 0]]

\* the application executes a statement through the wrapped DB
AppStatement(query) ==
    /\ fn.op = "Explain"
    /\ fn.calls < MaxCalls
    /\ fn' = [BeforeText(fn, query, "app") EXCEPT !.calls = @ + 1]
    /\ UNCHANGED <<AuditState, audit, drv, mock>>

\* a worker runs mysql.DB.QueryContext(ctx, "explain "+query, args...) on the
\* wrapped DB, then stores the verdict or, on failure, deletes the entry
WorkerExplain(query, ok) ==
    /\ fn.op = "Explain"
    /\ query \in fn.pending
    /\ Len(fn.sent) < 2 * MaxCalls
    /\ LET f == BeforeText(fn, ExplainText(query), "worker")
       IN fn' = [f EXCEPT !.sent = Append(@, ExplainText(query)),
                          !.pending = @ \ {query},
                          !.entries = IF ok THEN @ ELSE @ \ {query}]
    /\ UNCHANGED <<AuditState, audit, drv, mock>>

NextChain ==
    \/ \E query \in AppTexts : AppStatement(query)
    \/ \E query \in fn.pending, ok \in BOOLEAN : WorkerExplain(query, ok)

SpecChain == InitChain /\ [][NextChain]_vars

(***************************************************************************)
(* Replays of a mapped query by Mock.QueryContext.  The map holds a        *)
(* pointer to one Rows value, so every replay hands out the same value:    *)
(* fn.Rows and fn.Pos are its fields, fn.readers the callers reading it.   *)
(***************************************************************************)

\* NewRows(columns).AddRow(...)...: Pos is 0; then mock.AddQuery(q, NewReturn(rows, nil))
InitRows ==
    /\ Provisioned
    /\ whitelist = {TablesQuery}
    /\ audit = [AlarmThreshold |-> AlarmThreshold, BannedThreshold |-> BannedThreshold]
    /\ drv = NoDriver
    /\ mock = NoMock
    /\ fn \in {[op |-> "Rows", Rows |-> rows, Pos |-> 0, replays |-> 0,
                readers |-> [c \in Callers |-> [pc |-> "idle", read |-> <<>>]]] :
               rows \in SeqsUpTo({"row1", "row2"}, MaxRows)}

\* rows, err := QueryContext(ctx, q) on the mapped q: return ret.Value, ret.Err
RowsReplay(c) ==
    /\ fn.op = "Rows"
    /\ fn.readers[c].pc \in {"idle", "eof"}
    /\ fn.replays < MaxReplays
    /\ fn' = [fn EXCEPT !.readers[c] = [pc |-> "reading", read |-> <<>>],
                        !.replays = @ + 1]
    /\ UNCHANGED <<AuditState, audit, drv, mock>>

\* func (r *Rows) Next(dest): r.Pos++; io.EOF past the last row, else the row at Pos-1
RowsNext(c) ==
    /\ fn.op = "Rows"
    /\ fn.readers[c].pc = "reading"
    /\ LET pos == fn.Pos + 1
       IN fn' = IF pos > Len(fn.Rows)
                THEN [fn EXCEPT !.Pos = pos, !.readers[c].pc = "eof"]
                ELSE [fn EXCEPT !.Pos = pos,
                                !.readers[c].read = Append(@, fn.Rows[pos])]
    /\ UNCHANGED <<AuditState, audit, drv, mock>>

NextRows == \E c \in Callers : RowsReplay(c) \/ RowsNext(c)

SpecRows == InitRows /\ [][NextRows]_vars

(***************************************************************************)
(* Properties of the classifier.                                           *)
(***************************************************************************)

\* the rule of classification for one plan row under the thresholds in force
RuleVerdict(er) ==
    IF er.Table = Nil \/ er.Type = Nil THEN Normal
    ELSE LET R == IF er.Rows = Nil THEN 0 ELSE er.Rows[1]
         IN IF RowTriggers(er) /\ R > audit.BannedThreshold THEN Banned
            ELSE IF RowTriggers(er) /\ R > audit.AlarmThreshold THEN Alarm
            ELSE Normal

\* C11: for every plan row and every pair of thresholds the verdict of
\* detectAlarmType is the verdict of the rule: normal without table or type;
\* banned when type is ALL or index, or extra contains a trigger, and rows
\* (0 if absent) exceed the banned threshold; alarm when they exceed only the
\* alarm threshold; normal otherwise.
RowVerdictIsTheRule ==
    fn.op = "detectAlarmType" => fn.out.alarmType = RuleVerdict(fn.er)

\* an index scan classified alarm: above the alarm threshold, not above the banned one
RowVerdictWitness ==
    /\ fn.op = "detectAlarmType"
    /\ fn.er.Type = <<"index">>
    /\ fn.er.Extra = Nil
    /\ fn.out.alarmType = Alarm
    /\ audit.AlarmThreshold > 0

\* the largest of the verdicts of the rows of a plan, normal for the empty plan
MaxVerdict(ers) ==
    LET vs == {RuleVerdict(ers[i]) : i \in 1..Len(ers)} \cup {Normal}
    IN CHOOSE m \in vs : \A v \in vs : v <= m

\* C12: the verdict of DetectAlarmType on a plan is the maximum of the
\* verdicts of its rows in the order normal < alarm < banned, and normal for
\* the empty plan.
PlanVerdictIsTheMaximum ==
    fn.op = "DetectAlarmType" => fn.out.AlarmType = MaxVerdict(fn.ers)

\* a plan whose second row carries the maximum
PlanVerdictWitness ==
    /\ fn.op = "DetectAlarmType"
    /\ Len(fn.ers) = 2
    /\ RuleVerdict(fn.ers[1]) = Alarm
    /\ RuleVerdict(fn.ers[2]) = Banned
    /\ fn.out.AlarmType = Banned

\* the reason detectAlarmType gives a row that is not normal
IsReasonOfRow(reason, er) ==
    IF er.Type[1] \in {"ALL", "index"}
    THEN reason = <<"explain:type:", er.Type[1]>>
    ELSE \E ss \in ExplainExtraAlarmSubstrs :
            /\ er.Extra # Nil
            /\ Contains(er.Extra[1], ss)
            /\ reason = <<"explain:extra:">> \o ss

\* C13: the reason of the record built from a plan is empty when the
\* verdict is normal, and otherwise is the reason of the first row that
\* reaches the maximum verdict: explain:type:<T> for a type match,
\* explain:extra:<s> for a trigger s found in extra.
PlanReasonIsOfTheMaximum ==
    fn.op = "DetectAlarmType"
    => IF fn.out.AlarmType = Normal
       THEN fn.out.Reason = <<>>
       ELSE \E i \in 1..Len(fn.ers) :
               /\ RuleVerdict(fn.ers[i]) = fn.out.AlarmType
               /\ \A j \in 1..(i - 1) : RuleVerdict(fn.ers[j]) # fn.out.AlarmType
               /\ IsReasonOfRow(fn.out.Reason, fn.ers[i])

\* two rows of the same verdict and different reasons: the first one's is stored
PlanReasonWitness ==
    /\ fn.op = "DetectAlarmType"
    /\ Len(fn.ers) = 2
    /\ fn.out.AlarmType = Banned
    /\ RuleVerdict(fn.ers[1]) = Banned
    /\ RuleVerdict(fn.ers[2]) = Banned
    /\ fn.out.Reason = <<"explain:extra:", "filesort">>
    /\ fn.ers[2].Type = <<"ALL">>

(***************************************************************************)
(* Properties of ShouldAudit.                                              *)
(***************************************************************************)

\* the positions of a string that hold no whitespace
Inked(s) == {i \in 1..Len(s) : ~IsSpace(s[i])}

\* the default predicate as stated: after the surrounding whitespace at
\* least 6 characters remain and the first 6 spell one of the four verbs
StartsWithVerb(s) ==
    /\ Inked(s) # {}
    /\ LET a == CHOOSE i \in Inked(s) : \A j \in Inked(s) : i <= j
           b == CHOOSE i \in Inked(s) : \A j \in Inked(s) : j <= i
       IN /\ b - a + 1 >= 6
          /\ [i \in 1..6 |-> ToLower(s[a + i - 1])]
                \in { <<"s", "e", "l", "e", "c", "t">>, <<"i", "n", "s", "e", "r", "t">>,
                      <<"u", "p", "d", "a", "t", "e">>, <<"d", "e", "l", "e", "t", "e">> }

\* C14: ShouldAudit(q) is false exactly when the whitelist holds q itself or
\* the predicate is false on q; the default predicate trims the surrounding
\* whitespace and is true exactly when the first 6 characters spell select,
\* insert, update or delete in any case, false when fewer than 6 remain.
ShouldAuditIsWhitelistThenVerb ==
    /\ [][\A q \in AuditQueries :
            ApplyShouldAudit(q)
            => (fn'.out = FALSE <=> (q \in whitelist \/ ~StartsWithVerb(Text(q))))]_vars
    /\ [](fn.op = "DefaultShouldAudit" => fn.out = StartsWithVerb(fn.query))

\* a statement audited although the whitelist holds the same text in another case
ShouldAuditWitness ==
    /\ fn.op = "ShouldAudit"
    /\ fn.query = "tables-lower"
    /\ TablesQuery \in whitelist
    /\ fn.out = TRUE

(***************************************************************************)
(* Properties of the driver shim.                                          *)
(***************************************************************************)

\* C15: for every combination of interfaces of the inner connection (with
\* BeginTx) the connection returned by Open implements ExecerContext exactly
\* when the inner one can execute, QueryerContext exactly when it can query,
\* and SessionResetter exactly when the inner one does.
ConnExposesWhatInnerDoes ==
    drv.conn # Nil
    => LET conn == drv.conn[1]
           inner == ConnAt(drv.vendor, Len(drv.layers) - 1)
       IN /\ conn.ExecerContext <=> (inner.ExecerContext \/ inner.Execer)
          /\ conn.QueryerContext <=> (inner.QueryerContext \/ inner.Queryer)
          /\ conn.SessionResetter <=> inner.SessionResetter

\* C16: Open returns the error of the inner Open unchanged when that fails,
\* fails without a connection when the inner connection has no BeginTx, and
\* returns a wrapped connection only when the inner connection has BeginTx.
OpenRequiresBeginTx ==
    [][\A fails \in BOOLEAN :
         Open(fails)
         => IF fails THEN drv'.err = ErrOpen /\ drv'.conn = Nil
            ELSE IF ~drv.vendor.BeginTx THEN drv'.err \notin {"", ErrOpen} /\ drv'.conn = Nil
            ELSE drv'.err = "" /\ drv'.conn # Nil /\ drv'.conn[1].type # "vendor"]_vars

\* Open refused a connection without BeginTx
OpenRequiresBeginTxWitness ==
    /\ drv.opened
    /\ ~drv.vendor.BeginTx
    /\ drv.conn = Nil
    /\ drv.err = ErrBeginTx

\* the events of a log in which the vendor driver was invoked
VendorEvents(log) == {i \in 1..Len(log) : log[i].who = 0}

\* C17: with a vendor connection that has only the legacy Exec or Query, a
\* call whose arguments carry a name fails and the vendor is not invoked;
\* with all names empty the vendor receives the values in the same order.
LegacyTakesPositionalValues ==
    (/\ drv.last.on = "conn"
     /\ ~drv.vendor[Interface(drv.last.op)]
     /\ drv.vendor[LegacyInterface(drv.last.op)]
     /\ \A k \in 1..Len(drv.layers) : ~drv.layers[k].refuses)
    => LET args == drv.last.args
           out == drv.last.out
       IN IF \E n \in 1..Len(args) : args[n].Name # ""
          THEN out.err # "" /\ VendorEvents(out.log) = {}
          ELSE \E i \in 1..Len(out.log) :
                  /\ VendorEvents(out.log) = {i}
                  /\ out.log[i].op = Legacy(drv.last.op)
                  /\ out.log[i].query = drv.last.query
                  /\ Len(out.log[i].args) = Len(args)
                  /\ \A n \in 1..Len(args) : out.log[i].args[n] = args[n].Value

\* a named parameter sent to a legacy connection
LegacyWitness ==
    /\ drv.last.on = "conn"
    /\ drv.vendor.Execer
    /\ \A k \in 1..Len(drv.layers) : ~drv.layers[k].refuses
    /\ Len(drv.last.args) = 2
    /\ drv.last.args[2].Name = "n"
    /\ drv.last.out.err = ErrNamed

\* the events of a log in which the middleware of layer k was entered
Entries(log, k) == {i \in 1..Len(log) : log[i].who = k /\ log[i].at = "call"}

\* C18: every ExecContext and QueryContext on the wrapped connection or on a
\* statement obtained from its PrepareContext enters the installed
\* middleware exactly once, and for a statement the middleware is given the
\* text that was given to PrepareContext.
EveryCallEntersMiddlewareOnce ==
    drv.last.on \in {"conn", "stmt"}
    => LET log == drv.last.out.log
           top == Len(drv.layers)
       IN /\ Cardinality(Entries(log, top)) = 1
          /\ \A k \in 1..top :
                Cardinality(Entries(log, k))
                   = IF \E j \in (k + 1)..top : drv.layers[j].refuses THEN 0 ELSE 1
          /\ drv.last.on = "stmt"
             => \A i \in 1..Len(log) : log[i].who > 0 => log[i].query = drv.text

\* a statement prepared for one text, executed after the connection ran another
EveryCallWitness ==
    /\ drv.last.on = "stmt"
    /\ Len(drv.layers) = 2
    /\ drv.text = "ddl"
    /\ Cardinality(Entries(drv.last.out.log, 1)) = 1
    /\ drv.last.out.log[1].query = "ddl"
    /\ drv.last.out.err = ""

\* C19: with m2 wrapped around m1 around the driver, m2 is entered before m1
\* and before the driver and returns after m1 has returned; when m2 fails
\* before delegating, neither m1 nor the driver is invoked.
OutermostFirstAndLast ==
    (drv.last.on \in {"conn", "stmt"} /\ Len(drv.layers) = 2)
    => LET log == drv.last.out.log
       IN /\ log[1].who = 2 /\ log[1].at = "call"
          /\ log[Len(log)].who = 2 /\ log[Len(log)].at = "return"
          /\ IF drv.layers[2].refuses
             THEN Len(log) = 2 /\ drv.last.out.err = ErrRefused
             ELSE /\ log[2].who = 1 /\ log[2].at = "call"
                  /\ log[Len(log) - 1].who = 1 /\ log[Len(log) - 1].at = "return"
                  /\ \A i \in VendorEvents(log) : 2 < i /\ i < Len(log) - 1

\* both middlewares delegate and the driver answers
OutermostWitness ==
    /\ drv.last.on = "conn"
    /\ Len(drv.layers) = 2
    /\ Len(drv.last.out.log) = 5
    /\ drv.last.out.log[3].who = 0
    /\ drv.last.out.err = ""

\* the outer middleware refuses
OutermostRefusesWitness ==
    /\ drv.last.on = "conn"
    /\ Len(drv.layers) = 2
    /\ drv.layers[2].refuses
    /\ ~drv.layers[1].refuses
    /\ drv.last.out.err = ErrRefused

(***************************************************************************)
(* Properties of the Mock middleware.                                      *)
(***************************************************************************)

\* the map of the Mock that serves an operation
MapFor(op) == IF op = "ExecContext" THEN mock.ExecReturns ELSE mock.QueryReturns

\* C20: a call for a text that is mapped (recorded earlier or added by hand,
\* the last write winning) returns the stored value and error and does not
\* invoke the wrapped operation; a call for a text that is not mapped invokes
\* it exactly once, stores its outcome under the text and returns it; Exec
\* and Query have a map each.
MockReplaysOrRecords ==
    [][\A c \in Callers :
         /\ \A op \in Ops, q \in Queries :
               MockLoad(c, op, q)
               => /\ mock'.ExecReturns = mock.ExecReturns
                  /\ mock'.QueryReturns = mock.QueryReturns
                  /\ mock'.calls[c].next = 0
                  /\ IF q \in DOMAIN MapFor(op)
                     THEN mock'.calls[c].pc = "done" /\ mock'.calls[c].ret = MapFor(op)[q]
                     ELSE mock'.calls[c].pc = "next"
         /\ (mock.calls[c].pc = "next" /\ mock'.calls[c] # mock.calls[c])
            => mock'.calls[c].pc = "store" /\ mock'.calls[c].next = 1
         /\ (mock.calls[c].pc = "store" /\ mock'.calls[c] # mock.calls[c])
            => LET call == mock.calls[c]
               IN /\ mock'.calls[c].pc = "done"
                  /\ mock'.calls[c].next = 1
                  /\ mock'.calls[c].ret = call.outcome
                  /\ IF call.op = "ExecContext"
                     THEN /\ mock'.ExecReturns = Store(mock.ExecReturns, call.query, call.outcome)
                          /\ mock'.QueryReturns = mock.QueryReturns
                     ELSE /\ mock'.QueryReturns = Store(mock.QueryReturns, call.query, call.outcome)
                          /\ mock'.ExecReturns = mock.ExecReturns]_vars

\* a recorded failure replayed to a later Query while Exec of the same text is canned
MockWitness ==
    \E c \in Callers :
        /\ mock.calls[c].pc = "done"
        /\ mock.calls[c].op = "QueryContext"
        /\ mock.calls[c].next = 0
        /\ mock.calls[c].ret = [Value |-> "", Err |-> "driver error"]
        /\ mock.calls[c].query \in DOMAIN mock.ExecReturns
        /\ mock.ExecReturns[mock.calls[c].query].Value = "canned"

(***************************************************************************)
(* Properties of the Log middleware.                                       *)
(***************************************************************************)

\* C21: a statement leaves exactly one event, on normal exit as on error,
\* unless its error is the driver's skip sentinel, which leaves none; OnError
\* returns the error it was given.
LogOncePerStatement ==
    (fn.op = "log" /\ fn.pc = "done")
    => /\ fn.ret = fn.in
       /\ IF fn.in.text = ErrSkip.text
          THEN fn.events = <<>>
          ELSE /\ Len(fn.events) = 1
               /\ fn.events[1].query = fn.query
               /\ fn.events[1].error = fn.in

\* a wrapped skip sentinel passed through without an event
LogSkipWitness ==
    /\ fn.op = "log"
    /\ fn.pc = "done"
    /\ fn.in = [ErrSkip EXCEPT !.message = "exec"]
    /\ fn.events = <<>>
    /\ fn.ret = fn.in

(***************************************************************************)
(* Properties of the shadow-table rewriter.                                *)
(***************************************************************************)

\* C22: Provision fails with a configuration error exactly when prefix and
\* suffix are both empty, and succeeds when at least one of them is not.
ProvisionNeedsPrefixOrSuffix ==
    (fn.op = "rewriter" /\ fn.state = "provisioned")
    => /\ fn.err # "" <=> (fn.st.Prefix = "" /\ fn.st.Suffix = "")
       /\ fn.err = "" <=> fn.parser

\* the configuration of the test: a suffix only
ProvisionWitness ==
    /\ fn.op = "rewriter"
    /\ fn.state = "provisioned"
    /\ fn.st = [Prefix |-> "", Suffix |-> "_shadow"]
    /\ fn.err = ""

\* the nodes of a list of trees in the order they are visited, without their children
RECURSIVE Preorder(_)
Preorder(ns) ==
    IF ns = <<>> THEN <<>>
    ELSE <<[Head(ns) EXCEPT !.kids = <<>>]>> \o Preorder(Head(ns).kids) \o Preorder(Tail(ns))

\* the names a qualifier can refer to: the tables and the aliases of a statement
Declared(nodes) ==
    {nodes[i].name : i \in {j \in 1..Len(nodes) : nodes[j].kind = "TableName"}}
        \cup {nodes[i].alias : i \in {j \in 1..Len(nodes) : nodes[j].alias # ""}}

\* C23: in a SELECT, INSERT, UPDATE or DELETE the rewriter replaces every
\* table name, every non-empty alias of a table source and every non-empty
\* table qualifier of a column by prefix+name+suffix and changes nothing
\* else, so that every qualifier that named a table or an alias of the input
\* names the rewritten table or alias in the output.
RewriteKeepsReferences ==
    (fn.op = "rewriter" /\ fn.last.on = "RewriteSql" /\ fn.last.out.tree # Nil)
    => LET in == Preorder(Parse(fn.last.sql))
           out == Preorder(fn.last.out.tree)
           Shadow(x) == fn.st.Prefix \o x \o fn.st.Suffix
       IN /\ Len(out) = Len(in)
          /\ \A i \in 1..Len(in) :
                /\ out[i].kind = in[i].kind
                /\ out[i].name = IF in[i].kind = "TableName" THEN Shadow(in[i].name)
                                 ELSE in[i].name
                /\ out[i].alias = IF in[i].alias # "" THEN Shadow(in[i].alias) ELSE ""
                /\ (in[i].kind = "ColumnName" /\ in[i].qual # "")
                   => out[i].qual = Shadow(in[i].qual)
                /\ in[i].qual = "" => out[i].qual = ""
                /\ in[i].qual \in Declared(in) => out[i].qual \in Declared(out)

\* C24: a statement that parses and is not a SELECT, INSERT, UPDATE or DELETE
\* is returned as it was given, with no error.
OtherStatementsAreReturnedAsGiven ==
    (/\ fn.op = "rewriter"
     /\ fn.last.on = "RewriteSql"
     /\ Parse(fn.last.sql) # Nil
     /\ Parse(fn.last.sql)[1].kind \notin {"SelectStmt", "InsertStmt", "UpdateStmt", "DeleteStmt"})
    => /\ fn.last.out.text = fn.last.sql
       /\ fn.last.out.tree = Nil
       /\ fn.last.out.err = ""

\* a CREATE TABLE went through a rewriter that has a suffix
OtherStatementsWitness ==
    /\ fn.op = "rewriter"
    /\ fn.st.Suffix = "_shadow"
    /\ fn.last.on = "RewriteSql"
    /\ fn.last.sql = "create table t (a int)"
    /\ fn.last.out.text = "create table t (a int)"

\* C25: a successful rewrite stores the pair (sql, rewritten) and a later
\* rewrite of the same sql returns the stored result; a failed rewrite
\* writes nothing; the snapshot holds exactly one pair for each distinct
\* statement rewritten successfully.
RewriteCacheHoldsSuccesses ==
    /\ [][\A sql \in RewriterSqls :
            DoRewriteSql(sql)
            => IF sql \in DOMAIN fn.sqls
               THEN /\ fn'.last.out = fn.sqls[sql]
                    /\ fn'.last.hit
                    /\ fn'.sqls = fn.sqls
               ELSE IF fn'.last.out.err # ""
               THEN fn'.sqls = fn.sqls
               ELSE fn'.last.out.tree # Nil
                    => (/\ DOMAIN fn'.sqls = DOMAIN fn.sqls \cup {sql}
                        /\ fn'.sqls[sql] = fn'.last.out
                        /\ \A other \in DOMAIN fn.sqls : fn'.sqls[other] = fn.sqls[other])]_vars
    /\ [](fn.op = "rewriter"
          => DOMAIN fn.sqls
               = {sql \in fn.asked :
                    /\ Parse(sql) # Nil
                    /\ Parse(sql)[1].kind \in {"SelectStmt", "InsertStmt", "UpdateStmt",
                                               "DeleteStmt"}})

\* three pairs after three distinct statements, a failed one and a repeated one
RewriteCacheWitness ==
    /\ fn.op = "rewriter"
    /\ Cardinality(DOMAIN fn.sqls) = 3
    /\ "selec" \in fn.asked
    /\ fn.last.on = "RewriteSql"
    /\ fn.last.hit

\* C26: Args returns, with a nil error, the args at the positions that
\* ArgOps does not map to DelOp, in their order; positions of ArgOps beyond
\* the args are ignored; without ArgOps the args are returned unchanged.
ArgsDropsDeletedPositions ==
    (fn.op = "Rewrite" /\ fn.called)
    => LET kept == {i \in 1..Len(fn.args) :
                      ~(/\ fn.ArgOps # Nil
                        /\ (i - 1) \in DOMAIN fn.ArgOps[1]
                        /\ fn.ArgOps[1][i - 1] = "DelOp")}
       IN /\ fn.out.err = ""
          /\ Len(fn.out.args) = Cardinality(kept)
          /\ \A i \in kept : fn.out.args[Cardinality({j \in kept : j <= i})] = fn.args[i]
          /\ fn.ArgOps = Nil => fn.out.args = fn.args

\* the second of three args deleted, the position past the end ignored
ArgsWitness ==
    /\ fn.op = "Rewrite"
    /\ fn.called
    /\ fn.ArgOps # Nil
    /\ DOMAIN fn.ArgOps[1] = {1, 3}
    /\ fn.args = <<"a", "b", "c">>
    /\ fn.out.args = <<"a", "c">>

(***************************************************************************)
(* Properties of SyncMap.                                                  *)
(***************************************************************************)

\* C27: LoadOrStore is an atomic put-if-absent.  Of the concurrent calls on
\* a key that was absent, exactly one returns loaded=false and its value is
\* the one stored; every other returns loaded=true; all return the same
\* actual value.  A call on a key that was present leaves the map unchanged.
LoadOrStoreIsPutIfAbsent ==
    fn.op = "SyncMap"
    => \A key \in SyncKeys :
         LET returned == {i \in Callers : fn.g[i].pc = "returned" /\ fn.g[i].key = key}
             first == {i \in returned : ~fn.g[i].loaded}
         IN /\ returned # {}
               => /\ Has(fn.kvs, key)
                  /\ \A i \in returned : fn.g[i].actual = Ptr(fn.kvs[key])
            /\ Has(fn.before, key)
               => /\ first = {}
                  /\ fn.kvs[key] = fn.before[key]
            /\ (~Has(fn.before, key) /\ returned # {})
               => /\ Cardinality(first) = 1
                  /\ \A i \in first : fn.kvs[key] = fn.g[i].value

\* two goroutines raced on an absent key with different values: one stored, one loaded
LoadOrStoreWitness ==
    /\ fn.op = "SyncMap"
    /\ ~Has(fn.before, "k2")
    /\ \E i, j \in Callers :
          /\ fn.g[i] = [pc |-> "returned", key |-> "k2", value |-> "a",
                        loaded |-> FALSE, actual |-> Ptr("a")]
          /\ fn.g[j] = [pc |-> "returned", key |-> "k2", value |-> "b",
                        loaded |-> TRUE, actual |-> Ptr("a")]

\* a call on a present key returned what was there
LoadOrStorePresentWitness ==
    /\ fn.op = "SyncMap"
    /\ \E i \in Callers :
          fn.g[i] = [pc |-> "returned", key |-> "k1", value |-> "a",
                     loaded |-> TRUE, actual |-> Ptr("z")]

(***************************************************************************)
(* Properties of Provision.                                                *)
(***************************************************************************)

\* C28: after Provision the alarm threshold is 500 when none was configured
\* and the configured value otherwise, 0 included; the banned threshold is
\* 100000 when none was configured; the seen-sql log level is alarm when
\* none was configured; the trigger set holds Block Nested Loop, temporary
\* and filesort and every configured substring; the whitelist holds the
\* tables query and every configured entry.
ProvisionFillsDefaults ==
    (fn.op = "Audit" /\ fn.provisions > 0)
    => /\ fn.a.AlarmThreshold = IF fn.cfg.AlarmThreshold = Nil THEN Ptr(500)
                                ELSE fn.cfg.AlarmThreshold
       /\ fn.cfg.BannedThreshold = 0 => fn.a.BannedThreshold = 100000
       /\ fn.cfg.SeenSqlLogLevel = Nil => fn.a.SeenSqlLogLevel = Ptr(Alarm)
       /\ fn.a.explainExtraAlarmSubstrs # Nil
       /\ Deref(fn.a.explainExtraAlarmSubstrs)
            = {<<"Block", "Nested", "Loop">>, <<"temporary">>, <<"filesort">>}
                \cup fn.cfg.ExplainExtraAlarmSubstrs
       /\ fn.a.whitelist = {TablesQuery} \cup fn.cfg.Whitelist

\* the configuration of the test: alarm threshold 0 and banned threshold 2 are kept
ProvisionDefaultsWitness ==
    /\ fn.op = "Audit"
    /\ fn.provisions > 0
    /\ fn.cfg.AlarmThreshold = Ptr(0)
    /\ fn.a.AlarmThreshold = Ptr(0)
    /\ fn.a.BannedThreshold = 2
    /\ fn.cfg.SeenSqlLogLevel = Nil
    /\ fn.cfg.ExplainExtraAlarmSubstrs = {}
    /\ fn.a.whitelist = {TablesQuery}

\* nothing was configured
ProvisionUnconfiguredWitness ==
    /\ fn.op = "Audit"
    /\ fn.provisions > 0
    /\ fn.cfg.AlarmThreshold = Nil
    /\ fn.cfg.BannedThreshold = 0
    /\ fn.a.AlarmThreshold = Ptr(500)
    /\ fn.a.BannedThreshold = 100000

(***************************************************************************)
(* Properties of the start time carried by the context.                    *)
(***************************************************************************)

\* C30: on a fresh cache hit with verdict alarm or normal, before() attaches
\* the start time to the context it returns, so that after a successful
\* inner call the post-phase writes one query-rt log; a call to which no
\* start time was attached (first sight, not audited) writes no query-rt log.
FreshHitCarriesStartTime ==
    [][\A c \in Callers :
          LET call == calls[c]
          IN /\ (call.pc = "load" /\ calls'[c].pc = "next")
                => calls'[c].ctxStart
             /\ (call.pc \in {"idle", "ret", "store"} /\ calls'[c].pc = "next")
                => ~calls'[c].ctxStart
             /\ (call.pc = "next" /\ calls'[c].pc = "ret")
                => calls'[c].rt = (calls'[c].err = NilErr /\ call.ctxStart)]_vars

(***************************************************************************)
(* Properties of the contexts of auditAsync.                               *)
(***************************************************************************)

\* C29: the EXPLAIN task does not inherit the cancellation of the caller.
\* Cancelling the caller's context at any point after the task was spawned
\* changes neither the task nor the cache entry, never makes the task's
\* EXPLAIN end with a cancellation, and never stops the task, which ends by
\* storing a full record or by removing the placeholder.
TaskOutlivesCaller ==
    /\ [][CancelCaller => (fn'.task = fn.task /\ fn'.entry = fn.entry)]_vars
    /\ [](fn.op = "auditAsync"
          => /\ fn.task.out # "context canceled"
             /\ (fn.task.out = "context deadline exceeded") => fn.elapsed > ExplainTimeout
             /\ fn.task.pc # "ended" => ENABLED (TaskStart \/ TaskExplainReturns)
             /\ fn.task.pc = "ended"
                => IF fn.task.out = "stored"
                   THEN fn.entry # Nil /\ fn.entry.Reason # temporaryReason
                   ELSE fn.entry = Nil)

\* the request was cancelled while EXPLAIN ran and the task stored its verdict all the same
TaskOutlivesCallerWitness ==
    /\ fn.op = "auditAsync"
    /\ fn.caller.err = "context canceled"
    /\ fn.elapsed > 0
    /\ fn.task = [pc |-> "ended", out |-> "stored"]
    /\ fn.entry # Nil
    /\ fn.entry.AlarmType = Banned

(***************************************************************************)
(* Properties of the cache over time and under concurrency.                *)
(***************************************************************************)

\* C31: without a cache duration no call of before() finds a record stale
\* or deletes it, so a record leaves the cache only by DeleteSql, ClearSqls
\* or a failed EXPLAIN, and changes only by being stored over.
RecordsStayWithoutDuration ==
    [][SqlCacheDuration = Nil
       => /\ \A c \in Callers : calls'[c].pc # "delete" /\ calls'[c].sight # "stale"
          /\ \A q \in DOMAIN sqls :
                ~Has(sqls', q)
                => \/ DeleteSql(q)
                   \/ ClearSqls
                   \/ ExplainFail(q)
                   \/ ExplainPanic(q)]_vars

\* a record older than the duration and the jitter that a call has just used
RecordsStayWitness ==
    /\ SqlCacheDuration = Nil
    /\ \E c \in Callers :
          /\ calls[c].pc = "next"
          /\ calls[c].ctxStart
          /\ Has(sqls, calls[c].query)
          /\ sqls[calls[c].query].AlarmType = Alarm
          /\ now - sqls[calls[c].query].CreatedAt > CacheSeconds + JitterN

\* C32: at every moment at most one EXPLAIN task is in flight for a query
\* text, whatever the interleaving of concurrent calls, refreshes of a stale
\* record, DeleteSql and ClearSqls.
AtMostOneExplainInFlight ==
    \A q \in Queries : tasks[q] <= 1

\* C33: a record injected by AddBlacklistQuery or SetSql is neither stored
\* over nor removed by the end, successful or not, of an EXPLAIN task that
\* was spawned before the injection.
InjectedRecordSurvivesExplain ==
    [][\A q \in Queries :
          (/\ Has(sqls, q)
           /\ sqls[q].by \in {"AddBlacklistQuery", "SetSql"}
           /\ ExplainDone(q) \/ ExplainFail(q) \/ ExplainPanic(q))
          => (Has(sqls', q) /\ sqls'[q] = sqls[q])]_vars

\* C34: a failing or panicking EXPLAIN task removes only the __temporary
\* placeholder: it never removes a record whose reason is not __temporary.
FailedExplainRemovesOnlyPlaceholder ==
    [][\A q \in Queries :
          (/\ Has(sqls, q)
           /\ sqls[q].Reason # temporaryReason
           /\ ExplainFail(q) \/ ExplainPanic(q))
          => Has(sqls', q)]_vars

\* a placeholder of before() is stored for q
Placeholder(q) ==
    Has(sqls, q) /\ sqls[q].by = "before" /\ sqls[q].Reason = temporaryReason

\* C35: every __temporary placeholder is eventually replaced by a classified
\* record or removed, whether EXPLAIN succeeds, fails or the goroutine
\* panics for want of a DB, provided every EXPLAIN returns or hits its deadline.
PlaceholderIsEventuallyResolved ==
    \A q \in Queries : Placeholder(q) ~> ~Placeholder(q)

\* a placeholder with its task in flight and no DB attached
PlaceholderPendingWitness ==
    \E q \in Queries : Placeholder(q) /\ tasks[q] = 1 /\ db = "nil"

(***************************************************************************)
(* Properties of the wrappers.                                             *)
(***************************************************************************)

\* C36: the phases of the Exec and Query wrappers run in the order
\* pre-phase, inner call, post-phase; the post-phase runs only after the
\* inner call returned without error; an error of the inner call is returned
\* unchanged together with the inner result, and the post-phase is skipped.
PhasesAreOrdered ==
    fn.op \in {"Audit.ExecContext", "Audit.QueryContext"}
    => /\ fn.trace \in {<<>>, <<"before">>, <<"before", "next">>,
                        <<"before", "next", "after">>}
       /\ Len(fn.trace) = 3 => (fn.inner # Nil /\ Deref(fn.inner).err = NilErr)
       /\ (fn.pc = "ret" /\ fn.inner # Nil)
          => IF Deref(fn.inner).err # NilErr
             THEN fn.ret = fn.inner /\ fn.trace = <<"before", "next">>
             ELSE fn.ret = fn.inner /\ fn.trace = <<"before", "next", "after">>
       /\ (fn.pc = "ret" /\ fn.inner = Nil)
          => fn.trace = <<"before">> /\ Deref(fn.ret).err # NilErr

\* the inner Query failed and handed back rows: both are returned, after() did not run
PhasesWitness ==
    /\ fn.op = "Audit.QueryContext"
    /\ fn.pc = "ret"
    /\ fn.trace = <<"before", "next">>
    /\ fn.ctxStart
    /\ fn.ret = Ptr([res |-> "results", err |-> ErrDriver])

(***************************************************************************)
(* Properties of the EXPLAIN statements.                                   *)
(***************************************************************************)

\* C37: with the default predicate the EXPLAIN statement a worker sends
\* through the wrapped DB is not audited: it creates no cache entry and
\* spawns no worker, so each first sight causes exactly one EXPLAIN
\* statement and the chain of workers ends.
ExplainIsNotAudited ==
    fn.op = "Explain"
    => /\ fn.spawns.worker = 0
       /\ fn.entries \subseteq AppTexts
       /\ fn.pending \subseteq AppTexts
       /\ \A i \in 1..Len(fn.sent) : fn.sent[i] \notin fn.entries
       /\ Len(fn.sent) + Cardinality(fn.pending) = fn.spawns.app

\* two first sights, two EXPLAIN statements sent, nothing pending
ExplainIsNotAuditedWitness ==
    /\ fn.op = "Explain"
    /\ fn.spawns.app = 2
    /\ Len(fn.sent) = 2
    /\ fn.pending = {}
    /\ fn.entries # {}

(***************************************************************************)
(* Properties of the classifier as a function.                             *)
(***************************************************************************)

\* C38: DetectAlarmType is deterministic: applied again to the same row or
\* plan under the same thresholds and trigger set it returns the same
\* verdict and the same reason, also when the extra column holds more than
\* one trigger.
DetectIsDeterministic ==
    [][/\ (fn.op = "detectAlarmType" /\ fn'.op = "detectAlarmType" /\ fn'.er = fn.er)
          => fn'.out = fn.out
       /\ (fn.op = "DetectAlarmType" /\ fn'.op = "DetectAlarmType" /\ fn'.ers = fn.ers)
          => /\ fn'.out.AlarmType = fn.out.AlarmType
             /\ fn'.out.Reason = fn.out.Reason]_vars

(***************************************************************************)
(* Properties of the Mock under replay and under concurrency.              *)
(***************************************************************************)

\* C39: every replay of a mapped query yields the complete stored row
\* sequence: a caller that reads to EOF has read all stored rows in order,
\* however often the query was replayed and read before.
ReplayYieldsAllRows ==
    fn.op = "Rows"
    => \A c \in Callers : fn.readers[c].pc = "eof" => fn.readers[c].read = fn.Rows

\* C40: of the concurrent calls with the same unmapped text at most one
\* invokes the inner operation, and all of them return the same outcome.
InnerOnceForConcurrentCalls ==
    mock.built
    => \A c1, c2 \in Callers :
         LET a == mock.calls[c1]
             b == mock.calls[c2]
         IN (/\ c1 # c2
             /\ a.pc \in {"store", "done"}
             /\ b.pc \in {"store", "done"}
             /\ a.op = b.op
             /\ a.query = b.query)
            => /\ a.next + b.next <= 1
               /\ (a.pc = "done" /\ b.pc = "done") => a.ret = b.ret

====
